---- MODULE Spec2Model ----
(***************************************************************************)
(* Orchestration core of the browser-automation backend:                   *)
(*   - TaskQueue      (src/backend/src/orchestration/queue.py)             *)
(*   - AgentRegistry  (src/backend/src/agents/registry.py)                 *)
(*   - BaseAgent/Task (src/backend/src/agents/base.py)                     *)
(*   - Orchestrator   (src/backend/src/orchestration/orchestrator.py)      *)
(*   - WorkflowEngine (src/backend/src/workflow/engine.py)                 *)
(*                                                                         *)
(* Everything runs on one asyncio event loop.  A coroutine runs until it   *)
(* reaches a suspension point; the variable cpu names the worker that is   *)
(* running between two suspension points (Nil: the event loop is free to  *)
(* pick any ready coroutine, an API call included).  The locks of the      *)
(* queue and the registry are never held across a suspension point, so     *)
(* acquiring them never suspends.                                          *)
(***************************************************************************)
EXTENDS Integers, Sequences, FiniteSets, TLC

(***************************************************************************)
(* Bounds of the model.                                                    *)
(***************************************************************************)
NumTasks == 2
NumWorkers == 2
MaxCeiling == 2
MaxRetryLimit == 1
NumSteps == 4
MaxStepRetries == 1
RecursionLimit == 3
NumAgentIds == 2
MaxStrLen == 2
MaxBackoffLimit == 7
MaxInstances == 3
MaxStarts == 3
MaxStopCalls == 2

\* Python's None, where the other values are strings, and where they are numbers.
None == "none"
Nil == 0

TaskIds == 1..NumTasks
Workers == 1..NumWorkers

\* TaskPriority, and the order in which dequeue scans the lanes.
Priorities == {"urgent", "high", "medium", "low"}
PriorityOrder == <<"urgent", "high", "medium", "low">>

\* Task types offered by the callers: one routed by the table, one unknown.
TaskTypes == {"navigate", "unknown"}

\* Priorities the callers of the whole orchestrator draw from (the queue on its
\* own is exercised with all four, see QueueSpec).
OfferedPriorities == {"high", "low"}

\* The pool of agent instances that may be registered, with their types.
Agents == {"nav", "exe"}
AgentTypeOf(a) == IF a = "nav" THEN "navigator" ELSE "executor"
AgentTypes == {"navigator", "planner", "validator", "executor", "extractor", "analyzer", "custom"}

VARIABLES
  queues,          \* TaskQueue._queues: priority -> sequence of task ids
  active,          \* TaskQueue._active_tasks (keys)
  completed,       \* TaskQueue._completed_tasks (keys)
  max_concurrent,  \* TaskQueue._max_concurrent
  retry_limit,     \* settings.task_retry_limit
  task,            \* the Task objects, by id
  submitted,       \* number of Task objects created and submitted so far
  agents_by_type,  \* AgentRegistry._agents_by_type
  agent,           \* the agent objects: status, current_task
  running,         \* Orchestrator._running
  worker_tasks,    \* Orchestrator._worker_tasks
  pc,              \* each worker's suspension point
  wtask,           \* each worker's local variable task
  wagent,          \* each worker's local variable agent
  cpu,             \* the worker running between two suspension points
  requeued,        \* history: tasks put back for lack of an agent, not yet dispatched
  cancelled_queued,\* history: tasks for which cancel returned true while queued
  started,         \* history: start() has been called (the lifespan calls it once)
  held,            \* QueueSpec: tasks a dequeue returned, not yet given back by the caller
  last_call,       \* QueueSpec: the latest call of a queue operation, with its result
  workflow,        \* the workflow definition: step id -> step
  wf_status,       \* WorkflowState.status of the execution
  wf_registered,   \* the workflow id given to execute_workflow is registered or stored
  wf_outcome,      \* what execute_workflow gave its caller: a state, or the lookup error
  wf_error_message,\* WorkflowState.error_message is set
  wf_completed_at, \* WorkflowState.completed_at is set
  wf_context,      \* the steps whose output is in WorkflowState.context under step_<id>
  step_states,     \* WorkflowState.step_states: step id -> StepState
  visited,         \* _execute_dag: the set visited
  frame,           \* position of execute_step_and_descendants(step), per step
  deps_seen,       \* predecessors whose _wait_for_step_completion has returned
  call,            \* call[p][c]: the call of execute_step_and_descendants(c) made by p
  attempts,        \* history: calls of _execute_step per step (its recursion depth)
  wf_cpu,          \* the step whose coroutine is running, Nil when all are suspended
  wait_for_inline, \* the interpreter's asyncio.wait_for awaits the coroutine in place
  reg_agents,      \* AgentRegistry._agents: agent id -> agent instance
  reg_by_type,     \* AgentRegistry._agents_by_type: agent type -> list of instances
  reg_made,        \* number of agent instances constructed so far
  res_config,      \* ResolveSpec: the config stored in the step definition
  res_context,     \* ResolveSpec: WorkflowState.context
  res_resolved,    \* ResolveSpec: what _resolve_variables returned, None before the call
  bk_limit,        \* BackoffSpec: settings.task_retry_limit
  bk_task,         \* BackoffSpec: the task: status, retry_count
  bk_pc,           \* BackoffSpec: where the worker holding the task is
  bk_delay,        \* BackoffSpec: the delay given to the sleep in progress
  bk_left,         \* BackoffSpec: seconds the sleep in progress still lasts
  bk_slept,        \* BackoffSpec: history: seconds of backoff so far
  bk_queued,       \* BackoffSpec: the task is in its lane
  sel_step,        \* SelectSpec: the step definition: next_steps, on_success, on_error
  sel_eval,        \* SelectSpec: what eval of the step's condition does
  sel_status,      \* SelectSpec: the status in the step's StepState, "none" without one
  sel_output,      \* SelectSpec: the 'result' of the step's output_data, None without one
  sel_called,      \* SelectSpec: _get_next_steps has been called
  sel_result,      \* SelectSpec: what _get_next_steps returned
  lc_running,      \* OverlapSpec: Orchestrator._running
  lc_worker_tasks, \* OverlapSpec: Orchestrator._worker_tasks
  lc_task,         \* OverlapSpec: the asyncio task of each _worker ever spawned
  lc_spawned,      \* OverlapSpec: number of worker tasks created so far
  lc_stop          \* OverlapSpec: the calls of stop() suspended in their gather

qvars == <<queues, active, completed, max_concurrent, retry_limit, task, submitted>>
rvars == <<agents_by_type, agent>>
ovars == <<running, worker_tasks, pc, wtask, wagent, cpu>>
hvars == <<requeued, cancelled_queued, started>>
cvars == <<held, last_call>>
bvars == <<wait_for_inline>>
gvars == <<reg_agents, reg_by_type, reg_made>>
xvars == <<res_config, res_context, res_resolved>>
kvars == <<bk_limit, bk_task, bk_pc, bk_delay, bk_left, bk_slept, bk_queued>>
nvars == <<sel_step, sel_eval, sel_status, sel_output, sel_called, sel_result>>
lvars == <<lc_running, lc_worker_tasks, lc_task, lc_spawned, lc_stop>>
svars == <<gvars, xvars, kvars, nvars, lvars>>
wvars == <<workflow, wf_registered, wf_outcome, wf_error_message, wf_status, wf_completed_at, wf_context, step_states, visited, frame, deps_seen, call, attempts, wf_cpu>>
orch == <<qvars, rvars, ovars, hvars, cvars, bvars, wvars>>
nonwf == <<qvars, rvars, ovars, hvars, cvars, bvars, svars>>
vars == <<qvars, rvars, ovars, hvars, cvars, bvars, wvars, svars>>

(***************************************************************************)
(* Task and agent objects.                                                 *)
(***************************************************************************)
NewTask == [type |-> "navigate", priority |-> "medium", status |-> "idle",
            assigned_agent_id |-> None, retry_count |-> 0, completed_at |-> FALSE]

NewAgent == [status |-> "idle", current_task |-> Nil]

EmptyLanes == [p \in Priorities |-> <<>>]

SeqToSet(s) == {s[i] : i \in 1..Len(s)}

OnLane(qs, t) == \E p \in Priorities : t \in SeqToSet(qs[p])

RemoveFirst(s, t) ==
  LET i == CHOOSE k \in 1..Len(s) : s[k] = t /\ \A j \in 1..(k - 1) : s[j] # t
  IN  SubSeq(s, 1, i - 1) \o SubSeq(s, i + 1, Len(s))

(***************************************************************************)
(* TaskQueue.                                                              *)
(***************************************************************************)
\* Faulty variants of the queue's operations, used to see that the properties
\* below tell the queue from a wrong one.
EnqueueLanes_Front(qs, tk, t) == [qs EXCEPT ![tk[t].priority] = <<t>> \o @]

DequeueLane_Reversed(qs) ==
  LET idx == {i \in 1..Len(PriorityOrder) : qs[PriorityOrder[i]] # <<>>}
  IN  IF idx = {} THEN None
      ELSE PriorityOrder[CHOOSE i \in idx : \A j \in idx : i >= j]

CompleteActive_Keep(act, t) == act

\* enqueue: append to the lane of the task's priority (status set by the caller
\* of this operator, in the same step).
EnqueueLanes(qs, tk, t) == [qs EXCEPT ![tk[t].priority] = Append(@, t)]

EnqueueTask(tk, t) == [tk EXCEPT ![t].status = "waiting"]

\* dequeue: the lane scanned first that is not empty, or None.
DequeueLane(qs) ==
  LET idx == {i \in 1..Len(PriorityOrder) : qs[PriorityOrder[i]] # <<>>}
  IN  IF idx = {} THEN None
      ELSE PriorityOrder[CHOOSE i \in idx : \A j \in idx : i <= j]

\* Faulty variant: admits one task more than the ceiling.
DequeueResult_OverCeiling(qs, act, ceiling) ==
  IF Cardinality(act) > ceiling THEN Nil
  ELSE IF DequeueLane(qs) = None THEN Nil
  ELSE Head(qs[DequeueLane(qs)])

\* dequeue: the task returned (None at capacity or with all lanes empty).
DequeueResult(qs, act, ceiling) ==
  IF Cardinality(act) >= ceiling THEN Nil
  ELSE IF DequeueLane(qs) = None THEN Nil
  ELSE Head(qs[DequeueLane(qs)])

DequeueLanes(qs, act, ceiling) ==
  IF DequeueResult(qs, act, ceiling) = Nil THEN qs
  ELSE [qs EXCEPT ![DequeueLane(qs)] = Tail(@)]

DequeueActive(qs, act, ceiling) ==
  IF DequeueResult(qs, act, ceiling) = Nil THEN act
  ELSE act \cup {DequeueResult(qs, act, ceiling)}

\* complete_task: pop from the active map; recorded only if it was there.
CompleteActive(act, t) == act \ {t}
CompleteCompleted(act, comp, t) == IF t \in act THEN comp \cup {t} ELSE comp

\* Faulty variant of fail_task: the task is marked whether it is found in the
\* active map or not.
FailTaskTask_Always(act, tk, t) ==
  [tk EXCEPT ![t].status = "failed", ![t].completed_at = TRUE]

\* fail_task: acts only on a task found in the active map.
FailTaskTask(act, tk, t) ==
  IF t \in act
  THEN [tk EXCEPT ![t].status = "failed", ![t].completed_at = TRUE]
  ELSE tk
FailTaskActive(act, t) == act \ {t}
FailTaskCompleted(act, comp, t) == IF t \in act THEN comp \cup {t} ELSE comp

\* cancel_task: the active map first, then the lanes.
CancelResult(qs, act, t) == t \in act \/ OnLane(qs, t)

CancelTask(qs, act, tk, t) ==
  IF t \in act
  THEN [tk EXCEPT ![t].status = "cancelled", ![t].completed_at = TRUE]
  ELSE IF OnLane(qs, t) THEN [tk EXCEPT ![t].status = "cancelled"]
  ELSE tk

\* A task lies on the lane of its own priority only, so the scan over the
\* lanes finds it on at most one; deque.remove drops its first occurrence.
CancelLanes(qs, act, t) ==
  IF t \in act THEN qs
  ELSE [p \in Priorities |->
          IF t \in SeqToSet(qs[p]) THEN RemoveFirst(qs[p], t) ELSE qs[p]]

CancelActive(act, t) == act \ {t}
CancelCompleted(qs, act, comp, t) == IF CancelResult(qs, act, t) THEN comp \cup {t} ELSE comp

(***************************************************************************)
(* AgentRegistry.                                                          *)
(***************************************************************************)
Registered == UNION {SeqToSet(agents_by_type[ty]) : ty \in AgentTypes}

\* get_available_agent: the first agent of the type whose status is idle.
GetAvailableAgent(byType, ag, ty) ==
  LET lst == byType[ty]
      idx == {i \in 1..Len(lst) : ag[lst[i]].status = "idle"}
  IN  IF idx = {} THEN None
      ELSE lst[CHOOSE i \in idx : \A j \in idx : i <= j]

\* register, for an agent id not yet in the registry.
Register(a) ==
  /\ cpu = Nil
  /\ a \notin Registered
  /\ agents_by_type' = [agents_by_type EXCEPT ![AgentTypeOf(a)] = Append(@, a)]
  /\ UNCHANGED <<wvars, bvars, svars, cvars, agent, qvars, ovars, hvars>>

(***************************************************************************)
(* Orchestrator: routing.                                                  *)
(***************************************************************************)
\* Faulty variant of the routing: a type missing from the table goes to a
\* custom agent.
DetermineAgentType_Custom(ty) ==
  CASE ty = "navigate" -> "navigator"
    [] ty = "plan"     -> "planner"
    [] ty = "validate" -> "validator"
    [] ty = "execute"  -> "executor"
    [] ty = "extract"  -> "extractor"
    [] ty = "analyze"  -> "analyzer"
    [] OTHER           -> "custom"

\* _determine_agent_type: the table, looked up with the task's type as it is,
\* and the executor for every other string.
DetermineAgentType(ty) ==
  CASE ty = "navigate" -> "navigator"
    [] ty = "plan"     -> "planner"
    [] ty = "validate" -> "validator"
    [] ty = "execute"  -> "executor"
    [] ty = "extract"  -> "extractor"
    [] ty = "analyze"  -> "analyzer"
    [] OTHER           -> "executor"

(***************************************************************************)
(* BaseAgent and the concrete agents' execute.                             *)
(***************************************************************************)
\* Faulty variant of prepare: the task is marked running at once.
PrepareTask_Running(tk, a, t) ==
  [tk EXCEPT ![t].status = "running", ![t].assigned_agent_id = a]

\* prepare.
PrepareAgent(ag, a, t) == [ag EXCEPT ![a] = [status |-> "initializing", current_task |-> t]]

PrepareTask(tk, a, t) ==
  [tk EXCEPT ![t].status = "initializing", ![t].assigned_agent_id = a]

\* execute, the assignments that follow prepare.
RunAgent(ag, a) == [ag EXCEPT ![a].status = "running"]

RunTask(tk, t) == [tk EXCEPT ![t].status = "running"]

\* cleanup, the finally block of execute.
Cleanup(ag, a) == [ag EXCEPT ![a] = [status |-> "idle", current_task |-> Nil]]

\* the success path of execute.
SucceedTask(tk, t) == [tk EXCEPT ![t].status = "completed", ![t].completed_at = TRUE]

\* handle_error.
HandleErrorTask(tk, t) ==
  [tk EXCEPT ![t].status = "failed", ![t].completed_at = TRUE]

(***************************************************************************)
(* Callers of the orchestrator (the HTTP routes, the application's         *)
(* lifespan).  They run when no worker is between two suspension points.   *)
(***************************************************************************)
\* create_task + submit_task: a fresh Task, enqueued.
SubmitTask(p, ty) ==
  /\ cpu = Nil
  /\ submitted < NumTasks
  /\ LET t == submitted + 1
         tk == [task EXCEPT ![t].priority = p, ![t].type = ty]
     IN  /\ queues' = EnqueueLanes(queues, tk, t)
         /\ task' = EnqueueTask(tk, t)
         /\ submitted' = t
  /\ UNCHANGED <<wvars, bvars, svars, cvars, active, completed, max_concurrent, retry_limit, rvars, ovars, hvars>>

\* cancel_task of a task that was submitted.
CancelTaskCall(t) ==
  /\ cpu = Nil
  /\ t <= submitted
  /\ queues' = CancelLanes(queues, active, t)
  /\ active' = CancelActive(active, t)
  /\ completed' = CancelCompleted(queues, active, completed, t)
  /\ task' = CancelTask(queues, active, task, t)
  /\ cancelled_queued' =
       IF CancelResult(queues, active, t) /\ OnLane(queues, t) /\ task[t].status = "waiting"
       THEN cancelled_queued \cup {t} ELSE cancelled_queued
  /\ UNCHANGED <<wvars, bvars, svars, cvars, max_concurrent, retry_limit, submitted, rvars, ovars,
                 requeued, started>>

\* Faulty variant of start: the test of _running is missing.
Start_Always ==
  /\ cpu = Nil
  /\ running' = TRUE
  /\ started' = TRUE
  /\ worker_tasks' = Workers
  /\ pc' = [w \in Workers |-> "poll_sleep"]
  /\ UNCHANGED <<wvars, bvars, svars, cvars, qvars, rvars, wtask, wagent, cpu, requeued, cancelled_queued>>

\* start: nothing when already running, else N workers are spawned (the list
\* _worker_tasks is empty whenever the orchestrator is not running).
Start ==
  /\ cpu = Nil
  /\ started' = TRUE
  /\ IF running
     THEN UNCHANGED <<running, worker_tasks, pc>>
     ELSE /\ running' = TRUE
          /\ worker_tasks' = Workers
          /\ pc' = [w \in Workers |-> "poll_sleep"]
  /\ UNCHANGED <<wvars, bvars, svars, cvars, qvars, rvars, wtask, wagent, cpu, requeued, cancelled_queued>>

\* start, as the application's lifespan calls it: once, at startup.
StartOnce == ~started /\ Start

\* What CancelledError does to a worker suspended at pc: it is no Exception, so
\* only the finally block of a started execute runs (cleanup of its agent), and
\* the worker's own handler ends the loop.
CancelledAgents(ag, pcs, wag) ==
  [a \in Agents |->
     IF \E w \in Workers : pcs[w] = "executing" /\ wag[w] = a
     THEN [status |-> "idle", current_task |-> Nil]
     ELSE ag[a]]

\* stop: every worker task is cancelled at its suspension point, and the gather
\* returns when all of them have ended.
Stop ==
  /\ cpu = Nil
  /\ running
  /\ running' = FALSE
  /\ agent' = CancelledAgents(agent, pc, wagent)
  /\ pc' = [w \in Workers |-> "stopped"]
  /\ wtask' = [w \in Workers |-> Nil]
  /\ wagent' = [w \in Workers |-> None]
  /\ worker_tasks' = {}
  /\ UNCHANGED <<wvars, bvars, svars, cvars, qvars, agents_by_type, cpu, requeued, cancelled_queued, started>>

(***************************************************************************)
(* Orchestrator._worker, _execute_task and _handle_task_failure, cut at    *)
(* their suspension points: the poll sleep, wait_for around the agent's    *)
(* execute, the backoff sleep.                                             *)
(***************************************************************************)
\* A worker that is due (freshly spawned, or its poll sleep over) is scheduled.
WResume(w) ==
  /\ cpu = Nil
  /\ pc[w] \in {"poll_sleep"}
  /\ pc' = [pc EXCEPT ![w] = "ready"]
  /\ cpu' = w
  /\ UNCHANGED <<wvars, bvars, svars, cvars, qvars, rvars, running, worker_tasks, wtask, wagent, hvars>>

\* The loop test and the dequeue call.
WLoop(w) ==
  /\ cpu = w
  /\ pc[w] = "ready"
  /\ IF ~running
     THEN /\ pc' = [pc EXCEPT ![w] = "stopped"]
          /\ cpu' = Nil
          /\ UNCHANGED <<wvars, bvars, svars, cvars, queues, active, wtask>>
     ELSE /\ queues' = DequeueLanes(queues, active, max_concurrent)
          /\ active' = DequeueActive(queues, active, max_concurrent)
          /\ wtask' = [wtask EXCEPT ![w] = DequeueResult(queues, active, max_concurrent)]
          /\ IF DequeueResult(queues, active, max_concurrent) = Nil
             THEN pc' = [pc EXCEPT ![w] = "poll_sleep"] /\ cpu' = Nil
             ELSE pc' = [pc EXCEPT ![w] = "dispatch"] /\ cpu' = w
  /\ UNCHANGED <<wvars, bvars, svars, cvars, completed, max_concurrent, retry_limit, task, submitted, rvars,
                 running, worker_tasks, wagent, hvars>>

\* _execute_task: the agent the registry offers for the dequeued task.
AgentFor(w) ==
  GetAvailableAgent(agents_by_type, agent, DetermineAgentType(task[wtask[w]].type))

\* _execute_task, no agent available: the task is put back and the loop goes
\* on without a suspension point.
WRequeue(w) ==
  /\ cpu = w
  /\ pc[w] = "dispatch"
  /\ AgentFor(w) = None
  /\ queues' = EnqueueLanes(queues, task, wtask[w])
  /\ task' = EnqueueTask(task, wtask[w])
  /\ requeued' = requeued \cup {wtask[w]}
  /\ pc' = [pc EXCEPT ![w] = "ready"]
  /\ wtask' = [wtask EXCEPT ![w] = Nil]
  /\ UNCHANGED <<wvars, bvars, svars, cvars, active, completed, max_concurrent, retry_limit, submitted, rvars,
                 running, worker_tasks, wagent, cpu,
                 cancelled_queued, started>>

\* _execute_task, agent found, wait_for awaiting the coroutine in place: execute
\* starts at once with prepare.
WExecuteInline(w) ==
  /\ wait_for_inline
  /\ cpu = w
  /\ pc[w] = "dispatch"
  /\ AgentFor(w) # None
  /\ agent' = PrepareAgent(agent, AgentFor(w), wtask[w])
  /\ task' = PrepareTask(task, AgentFor(w), wtask[w])
  /\ wagent' = [wagent EXCEPT ![w] = AgentFor(w)]
  /\ requeued' = requeued \ {wtask[w]}
  /\ pc' = [pc EXCEPT ![w] = "preparing"]
  /\ UNCHANGED <<wvars, bvars, svars, cvars, queues, active, completed, max_concurrent, retry_limit, submitted,
                 agents_by_type, running, worker_tasks, wtask, cpu,
                 cancelled_queued, started>>

\* _execute_task, agent found, wait_for wrapping execute in a task of its own:
\* the worker is suspended before execute has started.
WExecuteDeferred(w) ==
  /\ ~wait_for_inline
  /\ cpu = w
  /\ pc[w] = "dispatch"
  /\ AgentFor(w) # None
  /\ wagent' = [wagent EXCEPT ![w] = AgentFor(w)]
  /\ requeued' = requeued \ {wtask[w]}
  /\ pc' = [pc EXCEPT ![w] = "starting"]
  /\ cpu' = Nil
  /\ UNCHANGED <<wvars, bvars, svars, cvars, qvars, rvars, running, worker_tasks, wtask,
                 cancelled_queued, started>>

\* The wrapped execute starts: prepare.
WAgentStart(w) ==
  /\ cpu = Nil
  /\ pc[w] = "starting"
  /\ agent' = PrepareAgent(agent, wagent[w], wtask[w])
  /\ task' = PrepareTask(task, wagent[w], wtask[w])
  /\ pc' = [pc EXCEPT ![w] = "preparing"]
  /\ cpu' = w
  /\ UNCHANGED <<wvars, bvars, svars, cvars, queues, active, completed, max_concurrent, retry_limit, submitted,
                 agents_by_type, running, worker_tasks, wtask,
                 wagent, hvars>>

\* execute after prepare: status running, then the agent's own work, where the
\* worker is suspended.
WAgentRun(w) ==
  /\ cpu = w
  /\ pc[w] = "preparing"
  /\ agent' = RunAgent(agent, wagent[w])
  /\ task' = RunTask(task, wtask[w])
  /\ pc' = [pc EXCEPT ![w] = "executing"]
  /\ cpu' = Nil
  /\ UNCHANGED <<wvars, bvars, svars, cvars, queues, active, completed, max_concurrent, retry_limit, submitted,
                 agents_by_type, running, worker_tasks, wtask,
                 wagent, hvars>>

\* execute returns: the task is completed, cleanup, complete_task; the loop goes on.
WExecSuccess(w) ==
  /\ cpu = Nil
  /\ pc[w] = "executing"
  /\ task' = SucceedTask(task, wtask[w])
  /\ agent' = Cleanup(agent, wagent[w])
  /\ active' = CompleteActive(active, wtask[w])
  /\ completed' = CompleteCompleted(active, completed, wtask[w])
  /\ pc' = [pc EXCEPT ![w] = "ready"]
  /\ wtask' = [wtask EXCEPT ![w] = Nil]
  /\ wagent' = [wagent EXCEPT ![w] = None]
  /\ cpu' = w
  /\ UNCHANGED <<wvars, bvars, svars, cvars, queues, max_concurrent, retry_limit, submitted, agents_by_type,
                 running, worker_tasks, hvars>>

\* _handle_task_failure: the retry decision.
ShouldRetry(count, limit) == count <= limit

\* Faulty variant of _handle_task_failure: the error of a task that has used up
\* its retries escapes and ends the worker.
HandleTaskFailure_Dies(w, tk) ==
  LET t == wtask[w]
      tk2 == [tk EXCEPT ![t].retry_count = @ + 1]
  IN  IF tk2[t].retry_count <= retry_limit
      THEN /\ task' = tk2
           /\ pc' = [pc EXCEPT ![w] = "backoff"]
           /\ cpu' = Nil
           /\ UNCHANGED <<wvars, cvars, active, completed, wtask>>
      ELSE /\ task' = tk2
           /\ pc' = [pc EXCEPT ![w] = "stopped"]
           /\ wtask' = [wtask EXCEPT ![w] = Nil]
           /\ cpu' = Nil
           /\ UNCHANGED <<active, completed>>

\* _handle_task_failure on the task objects tk (as execute left them).
HandleTaskFailure(w, tk) ==
  LET t == wtask[w]
      tk2 == [tk EXCEPT ![t].retry_count = @ + 1]
  IN  IF ShouldRetry(tk2[t].retry_count, retry_limit)
      THEN /\ task' = tk2
           /\ pc' = [pc EXCEPT ![w] = "backoff"]
           /\ cpu' = Nil
           /\ UNCHANGED <<wvars, bvars, svars, cvars, active, completed, wtask>>
      ELSE /\ task' = FailTaskTask(active, tk2, t)
           /\ active' = FailTaskActive(active, t)
           /\ completed' = FailTaskCompleted(active, completed, t)
           /\ pc' = [pc EXCEPT ![w] = "ready"]
           /\ wtask' = [wtask EXCEPT ![w] = Nil]
           /\ cpu' = w

\* execute raises: handle_error, cleanup, then the failure handler.
WExecError(w) ==
  /\ cpu = Nil
  /\ pc[w] = "executing"
  /\ agent' = Cleanup(agent, wagent[w])
  /\ wagent' = [wagent EXCEPT ![w] = None]
  /\ HandleTaskFailure(w, HandleErrorTask(task, wtask[w]))
  /\ UNCHANGED <<wvars, bvars, svars, cvars, queues, max_concurrent, retry_limit, submitted, agents_by_type,
                 running, worker_tasks, hvars>>

\* wait_for times out: execute is cancelled (cleanup only), then the failure handler.
WExecTimeout(w) ==
  /\ cpu = Nil
  /\ pc[w] = "executing"
  /\ agent' = Cleanup(agent, wagent[w])
  /\ wagent' = [wagent EXCEPT ![w] = None]
  /\ HandleTaskFailure(w, task)
  /\ UNCHANGED <<wvars, bvars, svars, cvars, queues, max_concurrent, retry_limit, submitted, agents_by_type,
                 running, worker_tasks, hvars>>

\* The backoff sleep ends: status waiting, enqueue; the loop goes on.
WBackoffDone(w) ==
  /\ cpu = Nil
  /\ pc[w] = "backoff"
  /\ queues' = EnqueueLanes(queues, task, wtask[w])
  /\ task' = EnqueueTask(task, wtask[w])
  /\ pc' = [pc EXCEPT ![w] = "ready"]
  /\ wtask' = [wtask EXCEPT ![w] = Nil]
  /\ cpu' = w
  /\ UNCHANGED <<wvars, bvars, svars, cvars, active, completed, max_concurrent, retry_limit, submitted, rvars,
                 running, worker_tasks, wagent, hvars>>

WorkerNext(w) ==
  \/ WResume(w)
  \/ WLoop(w)
  \/ WRequeue(w)
  \/ WExecuteInline(w)
  \/ WExecuteDeferred(w)
  \/ WAgentStart(w)
  \/ WAgentRun(w)
  \/ WExecSuccess(w)
  \/ WExecError(w)
  \/ WExecTimeout(w)
  \/ WBackoffDone(w)

(***************************************************************************)
(* WorkflowEngine: one execution of one workflow.  A step of the workflow  *)
(* is [kind, max_retries, on_error, next_steps, on_success]; kind "ok" is  *)
(* a step of a type whose executor returns, kind "fail" a step whose       *)
(* execution raises (an unknown type, a condition that cannot be           *)
(* evaluated).                                                             *)
(***************************************************************************)
StepIds == 1..NumSteps

\* initialStep, by default the first step of the definition.
InitialStep == 1

TerminalStepStatus == {"completed", "failed", "skipped"}

NoStepState == [status |-> "none", retry_count |-> 0]

\* StepState(id, status=RUNNING, ...): retry_count takes its default.
FreshStepState == [status |-> "running", retry_count |-> 0]

\* The workflows drawn: edges next_steps run forward or back to the initial
\* step; at most one step fails, and only it has retries and an error handler;
\* only the initial step may name an on_success step.
Edges ==
  {e \in StepIds \X StepIds : e[1] < e[2] \/ (e[1] > InitialStep /\ e[2] = InitialStep)}

FailChoices ==
  {[step |-> Nil, max_retries |-> 0, on_error |-> Nil]}
    \cup {[step |-> s, max_retries |-> m, on_error |-> e] :
            s \in StepIds, m \in 0..MaxStepRetries, e \in {Nil} \cup StepIds}

MakeWorkflow(E, f, os) ==
  [s \in StepIds |->
     [kind        |-> IF s = f.step THEN "fail" ELSE "ok",
      max_retries |-> IF s = f.step THEN f.max_retries ELSE 0,
      on_error    |-> IF s = f.step THEN f.on_error ELSE Nil,
      next_steps  |-> {c \in StepIds : <<s, c>> \in E},
      on_success  |-> IF s = InitialStep THEN os ELSE Nil]]

\* _build_dag: the predecessors of a step are the steps that list it in nextSteps.
BuildDag(wf) == [s \in StepIds |-> {p \in StepIds : s \in wf[p].next_steps}]

\* Faulty variant of the selection: on_success is added to next_steps.
GetNextSteps_Both(wf, ss, s) ==
  IF ss[s].status \in {"none", "failed"}
  THEN IF wf[s].on_error # Nil THEN {wf[s].on_error} ELSE {}
  ELSE wf[s].next_steps \cup (IF wf[s].on_success # Nil THEN {wf[s].on_success} ELSE {})

\* _get_next_steps.
GetNextSteps(wf, ss, s) ==
  IF ss[s].status \in {"none", "failed"}
  THEN IF wf[s].on_error # Nil THEN {wf[s].on_error} ELSE {}
  ELSE IF wf[s].next_steps # {} THEN wf[s].next_steps
  ELSE IF wf[s].on_success # Nil THEN {wf[s].on_success}
  ELSE {}

\* execute_step_and_descendants, from the visited test to the first await: with
\* predecessors the coroutine suspends in gather, without it goes on to
\* _execute_step.
EnterFrame(wf, c) == IF BuildDag(wf)[c] = {} THEN "exec" ELSE "wait_deps"

EnterCpu(wf, c) == IF BuildDag(wf)[c] = {} THEN c ELSE Nil

\* Faulty variant of the start of execute_workflow: the execution state is
\* created before the definition is looked up.
ExecuteWorkflow_StateFirst ==
  /\ wf_status = "pending"
  /\ wf_outcome = "none"
  /\ IF wf_registered
     THEN /\ wf_status' = "running"
          /\ visited' = visited \cup {InitialStep}
          /\ frame' = [frame EXCEPT ![InitialStep] = EnterFrame(workflow, InitialStep)]
          /\ wf_cpu' = EnterCpu(workflow, InitialStep)
          /\ UNCHANGED wf_outcome
     ELSE /\ wf_status' = "running"
          /\ wf_outcome' = "not_found"
          /\ UNCHANGED <<visited, frame, wf_cpu>>
  /\ UNCHANGED <<nonwf, wf_registered, wf_error_message, wf_completed_at, wf_context, workflow, step_states, deps_seen, call, attempts>>

\* execute_workflow up to the call of the initial step, or to the ValueError
\* for an id that is neither registered nor stored.
ExecuteWorkflow ==
  /\ wf_status = "pending"
  /\ wf_outcome = "none"
  /\ IF wf_registered
     THEN /\ wf_status' = "running"
          /\ visited' = visited \cup {InitialStep}
          /\ frame' = [frame EXCEPT ![InitialStep] = EnterFrame(workflow, InitialStep)]
          /\ wf_cpu' = EnterCpu(workflow, InitialStep)
          /\ UNCHANGED wf_outcome
     ELSE /\ wf_outcome' = "not_found"
          /\ UNCHANGED <<wf_status, visited, frame, wf_cpu>>
  /\ UNCHANGED <<nonwf, wf_registered, wf_error_message, wf_completed_at, wf_context, workflow, step_states, deps_seen, call, attempts>>

\* Faulty variant of the start of a call: the visited test is missing.
TaskStart_NoVisited(p, c) ==
  /\ call[p][c] = "scheduled"
  /\ wf_cpu = Nil
  /\ call' = [call EXCEPT ![p][c] = "own"]
  /\ visited' = visited \cup {c}
  /\ frame' = [frame EXCEPT ![c] = EnterFrame(workflow, c)]
  /\ wf_cpu' = EnterCpu(workflow, c)
  /\ UNCHANGED <<nonwf, wf_registered, wf_error_message, wf_outcome, wf_completed_at, wf_context, workflow, wf_status, step_states, deps_seen, attempts>>

\* A call that gather scheduled starts: it returns at once for a visited step.
TaskStart(p, c) ==
  /\ call[p][c] = "scheduled"
  /\ wf_cpu = Nil
  /\ IF c \in visited
     THEN /\ call' = [call EXCEPT ![p][c] = "dup"]
          /\ UNCHANGED <<visited, frame, wf_cpu>>
     ELSE /\ call' = [call EXCEPT ![p][c] = "own"]
          /\ visited' = visited \cup {c}
          /\ frame' = [frame EXCEPT ![c] = EnterFrame(workflow, c)]
          /\ wf_cpu' = EnterCpu(workflow, c)
  /\ UNCHANGED <<nonwf, wf_registered, wf_error_message, wf_outcome, wf_completed_at, wf_context, workflow, wf_status, step_states, deps_seen, attempts>>

\* Faulty variant of the wait: it returns whatever the predecessor's status.
DepSeen_NoWait(s, d) ==
  /\ frame[s] = "wait_deps"
  /\ wf_cpu = Nil
  /\ d \in BuildDag(workflow)[s] \ deps_seen[s]
  /\ deps_seen' = [deps_seen EXCEPT ![s] = @ \cup {d}]
  /\ frame' = [frame EXCEPT ![s] =
                 IF deps_seen'[s] = BuildDag(workflow)[s] THEN "ready" ELSE @]
  /\ UNCHANGED <<nonwf, wf_registered, wf_error_message, wf_outcome, wf_completed_at, wf_context, workflow, wf_status, step_states, visited, call, attempts, wf_cpu>>

\* _wait_for_step_completion(dep) finds the predecessor in a final status.
DepSeen(s, d) ==
  /\ frame[s] = "wait_deps"
  /\ wf_cpu = Nil
  /\ d \in BuildDag(workflow)[s] \ deps_seen[s]
  /\ step_states[d].status \in TerminalStepStatus
  /\ deps_seen' = [deps_seen EXCEPT ![s] = @ \cup {d}]
  /\ frame' = [frame EXCEPT ![s] =
                 IF deps_seen'[s] = BuildDag(workflow)[s] THEN "ready" ELSE @]
  /\ UNCHANGED <<nonwf, wf_registered, wf_error_message, wf_outcome, wf_completed_at, wf_context, workflow, wf_status, step_states, visited, call, attempts, wf_cpu>>

\* A coroutine the event loop can run without time passing.
Runnable ==
  \/ \E s \in StepIds : frame[s] \in {"ready", "exec", "select"}
  \/ \E p \in StepIds, c \in StepIds : call[p][c] = "scheduled"
  \/ \E s \in StepIds, d \in StepIds :
       /\ frame[s] = "wait_deps"
       /\ d \in BuildDag(workflow)[s] \ deps_seen[s]
       /\ step_states[d].status \in TerminalStepStatus

\* Faulty variant of the wait: at the cap the step is given up without an
\* error and its call returns.
DepsTimeout_Skips(s) ==
  /\ frame[s] = "wait_deps"
  /\ wf_cpu = Nil
  /\ ~Runnable
  /\ frame' = [frame EXCEPT ![s] = "returned"]
  /\ UNCHANGED <<nonwf, wf_registered, wf_error_message, wf_outcome, wf_completed_at, wf_context, workflow, wf_status, step_states, visited, deps_seen, call, attempts, wf_cpu>>

\* Faulty variant of the wait: at the cap it returns instead of raising.
DepsTimeout_Returns(s) ==
  /\ frame[s] = "wait_deps"
  /\ wf_cpu = Nil
  /\ ~Runnable
  /\ frame' = [frame EXCEPT ![s] = "ready"]
  /\ UNCHANGED <<nonwf, wf_registered, wf_error_message, wf_outcome, wf_completed_at, wf_context, workflow, wf_status, step_states, visited, deps_seen, call, attempts, wf_cpu>>

\* _wait_for_step_completion gives up after max_wait: TimeoutError.  Time
\* passes only when nothing can run.
DepsTimeout(s) ==
  /\ frame[s] = "wait_deps"
  /\ wf_cpu = Nil
  /\ ~Runnable
  /\ frame' = [frame EXCEPT ![s] = "raised"]
  /\ UNCHANGED <<nonwf, wf_registered, wf_error_message, wf_outcome, wf_completed_at, wf_context, workflow, wf_status, step_states, visited, deps_seen, call, attempts, wf_cpu>>

\* The event loop resumes a step after its predecessors or its backoff sleep.
Resume(s) ==
  /\ frame[s] \in {"ready", "backoff"}
  /\ wf_cpu = Nil
  /\ frame' = [frame EXCEPT ![s] = "exec"]
  /\ wf_cpu' = s
  /\ UNCHANGED <<nonwf, wf_registered, wf_error_message, wf_outcome, wf_completed_at, wf_context, workflow, wf_status, step_states, visited, deps_seen, call, attempts>>

\* Faulty variant of the end of a successful attempt: the output is not
\* written to the context.
PublishOutput_Nothing(context, s) == context

\* state.context[f"step_{step_id}"] = result
PublishOutput(context, s) == context \cup {s}

\* _execute_step: one attempt.  At the interpreter's recursion limit the
\* nested call raises RecursionError out of every enclosing handler, with the
\* step state as the deepest attempt left it.
Attempt(s) ==
  /\ frame[s] = "exec"
  /\ wf_cpu = s
  /\ IF attempts[s] >= RecursionLimit
     THEN /\ \E st \in {"pending", "running"} :
               step_states' = [step_states EXCEPT ![s].status = st]
          /\ frame' = [frame EXCEPT ![s] = "raised"]
          /\ wf_cpu' = Nil
          /\ UNCHANGED attempts
     ELSE /\ attempts' = [attempts EXCEPT ![s] = @ + 1]
          /\ IF workflow[s].kind = "ok"
             THEN /\ step_states' = [step_states EXCEPT ![s] =
                                       [FreshStepState EXCEPT !.status = "completed"]]
                  /\ frame' = [frame EXCEPT ![s] = "select"]
                  /\ UNCHANGED wf_cpu
             ELSE IF FreshStepState.retry_count < workflow[s].max_retries
             THEN /\ step_states' = [step_states EXCEPT ![s] =
                                       [status |-> "pending",
                                        retry_count |-> FreshStepState.retry_count + 1]]
                  /\ frame' = [frame EXCEPT ![s] = "backoff"]
                  /\ wf_cpu' = Nil
             ELSE /\ step_states' = [step_states EXCEPT ![s] =
                                       [FreshStepState EXCEPT !.status = "failed"]]
                  /\ frame' = [frame EXCEPT ![s] = "raised"]
                  /\ wf_cpu' = Nil
  /\ wf_context' = IF attempts[s] < RecursionLimit /\ workflow[s].kind = "ok"
                    THEN PublishOutput(wf_context, s)
                    ELSE wf_context
  /\ UNCHANGED <<nonwf, wf_registered, wf_error_message, wf_outcome, wf_completed_at, workflow, wf_status, visited, deps_seen, call>>

\* execute_step_and_descendants after _execute_step returned: one successor is
\* called in line, several are handed to gather.
Select(s) ==
  /\ frame[s] = "select"
  /\ wf_cpu = s
  /\ LET next == GetNextSteps(workflow, step_states, s)
     IN  IF next = {}
         THEN /\ frame' = [frame EXCEPT ![s] = "returned"]
              /\ wf_cpu' = Nil
              /\ UNCHANGED <<visited, call>>
         ELSE IF Cardinality(next) = 1
         THEN LET c == CHOOSE x \in next : TRUE
              IN  IF c \in visited
                  THEN /\ call' = [call EXCEPT ![s][c] = "dup"]
                       /\ frame' = [frame EXCEPT ![s] = "returned"]
                       /\ wf_cpu' = Nil
                       /\ UNCHANGED visited
                  ELSE /\ call' = [call EXCEPT ![s][c] = "own"]
                       /\ visited' = visited \cup {c}
                       /\ frame' = [frame EXCEPT ![s] = "children",
                                                 ![c] = EnterFrame(workflow, c)]
                       /\ wf_cpu' = EnterCpu(workflow, c)
         ELSE /\ call' = [call EXCEPT ![s] =
                            [c \in StepIds |-> IF c \in next THEN "scheduled" ELSE @[c]]]
              /\ frame' = [frame EXCEPT ![s] = "children"]
              /\ wf_cpu' = Nil
              /\ UNCHANGED visited
  /\ UNCHANGED <<nonwf, wf_registered, wf_error_message, wf_outcome, wf_completed_at, wf_context, workflow, wf_status, step_states, deps_seen, attempts>>

\* The calls a step made have returned, or one of them raised: the error
\* passes through the caller at once, the other calls run on.
ParentResume(p) ==
  /\ frame[p] = "children"
  /\ wf_cpu = Nil
  /\ LET kids == {c \in StepIds : call[p][c] # "none"}
     IN  IF \E c \in kids : call[p][c] = "own" /\ frame[c] = "raised"
         THEN frame' = [frame EXCEPT ![p] = "raised"]
         ELSE /\ \A c \in kids :
                   \/ call[p][c] = "dup"
                   \/ call[p][c] = "own" /\ frame[c] = "returned"
              /\ frame' = [frame EXCEPT ![p] = "returned"]
  /\ UNCHANGED <<nonwf, wf_registered, wf_error_message, wf_outcome, wf_completed_at, wf_context, workflow, wf_status, step_states, visited, deps_seen, call, attempts, wf_cpu>>

\* Faulty variant of the end of execute_workflow: the handler of the exception
\* sets the status only.
WfFinish_NoStamp ==
  /\ wf_status = "running"
  /\ wf_cpu = Nil
  /\ frame[InitialStep] \in {"returned", "raised"}
  /\ wf_status' = IF frame[InitialStep] = "returned" THEN "completed" ELSE "failed"
  /\ wf_completed_at' = (frame[InitialStep] = "returned")
  /\ wf_error_message' = (frame[InitialStep] = "raised")
  /\ wf_outcome' = "state"
  /\ UNCHANGED <<nonwf, wf_registered, wf_context, workflow, step_states, visited, frame, deps_seen, call, attempts, wf_cpu>>

\* execute_workflow after _execute_dag: COMPLETED, or FAILED on an exception.
WfFinish ==
  /\ wf_status = "running"
  /\ wf_cpu = Nil
  /\ frame[InitialStep] \in {"returned", "raised"}
  /\ wf_status' = IF frame[InitialStep] = "returned" THEN "completed" ELSE "failed"
  /\ wf_completed_at' = TRUE
  /\ wf_error_message' = (frame[InitialStep] = "raised")
  /\ wf_outcome' = "state"
  /\ UNCHANGED <<nonwf, wf_registered, wf_context, workflow, step_states, visited, frame, deps_seen, call, attempts, wf_cpu>>

\* WorkflowExecutor.execute: the state as a dictionary, or the dictionary made
\* from the exception that execute_workflow raised.
ExecutorExecute ==
  IF wf_outcome = "state"
  THEN [execution_id |-> "id", status |-> wf_status, error |-> wf_error_message]
  ELSE IF wf_outcome = "not_found"
  THEN [execution_id |-> None, status |-> "failed", error |-> TRUE]
  ELSE [execution_id |-> None, status |-> None, error |-> FALSE]

\* No execution yet.
WfIdle ==
  /\ wf_status = "pending"
  /\ wf_outcome = "none"
  /\ wf_error_message = FALSE
  /\ wf_completed_at = FALSE
  /\ wf_context = {}
  /\ step_states = [s \in StepIds |-> NoStepState]
  /\ visited = {}
  /\ frame = [s \in StepIds |-> "none"]
  /\ deps_seen = [s \in StepIds |-> {}]
  /\ call = [p \in StepIds |-> [c \in StepIds |-> "none"]]
  /\ attempts = [s \in StepIds |-> 0]
  /\ wf_cpu = Nil

(***************************************************************************)
(* The AgentRegistry on its own: register and deregister called in any     *)
(* order.  An agent instance is [id, type, n]: its agent_id, its           *)
(* agent_type, and n telling apart the instances constructed with the same *)
(* id.                                                                     *)
(***************************************************************************)
RegIds == 1..NumAgentIds

RegTypes == {"navigator", "executor"}

NoAgent == [id |-> Nil, type |-> None, n |-> Nil]

\* register: the by-id entry is assigned, the instance appended to the list of
\* its type.
RegisterAgents(ags, inst) == [ags EXCEPT ![inst.id] = inst]

RegisterByType(bt, inst) == [bt EXCEPT ![inst.type] = Append(@, inst)]

\* deregister: the instance popped from the by-id index names the list that is
\* filtered by id.
DeregisterAgents(ags, i) == [ags EXCEPT ![i] = NoAgent]

DeregisterByType(ags, bt, i) ==
  IF ags[i] = NoAgent THEN bt
  ELSE [bt EXCEPT ![ags[i].type] = SelectSeq(@, LAMBDA a : a.id # i)]

RegRegister(i, ty) ==
  /\ reg_made < MaxInstances
  /\ LET inst == [id |-> i, type |-> ty, n |-> reg_made + 1]
     IN  /\ reg_agents' = RegisterAgents(reg_agents, inst)
         /\ reg_by_type' = RegisterByType(reg_by_type, inst)
  /\ reg_made' = reg_made + 1
  /\ UNCHANGED <<orch, xvars, kvars, nvars, lvars>>

RegDeregister(i) ==
  /\ reg_agents' = DeregisterAgents(reg_agents, i)
  /\ reg_by_type' = DeregisterByType(reg_agents, reg_by_type, i)
  /\ UNCHANGED <<orch, xvars, kvars, nvars, lvars, reg_made>>

\* AgentRegistry.__init__ (the lists of the types are created on first use).
RegInit ==
  /\ reg_agents = [i \in RegIds |-> NoAgent]
  /\ reg_by_type = [ty \in RegTypes |-> <<>>]
  /\ reg_made = 0

RegNext ==
  \/ \E i \in RegIds, ty \in RegTypes : RegRegister(i, ty)
  \/ \E i \in RegIds : RegDeregister(i)

(***************************************************************************)
(* WorkflowEngine._resolve_variables on its own.  A value of a step config *)
(* is [t, s, n, keys, kids]: a string (t = "str", s its characters), a     *)
(* number (t = "num", n), a list (t = "list", kids its elements) or a      *)
(* mapping (t = "dict", keys and kids its keys and their values, in        *)
(* order).  The context maps variable names, strings too, to values.       *)
(***************************************************************************)
Str(s) == [t |-> "str", s |-> s, n |-> 0, keys |-> <<>>, kids |-> <<>>]

Num(n) == [t |-> "num", s |-> <<>>, n |-> n, keys |-> <<>>, kids |-> <<>>]

List(l) == [t |-> "list", s |-> <<>>, n |-> 0, keys |-> <<>>, kids |-> l]

Dict(ks, vs) == [t |-> "dict", s |-> <<>>, n |-> 0, keys |-> ks, kids |-> vs]

\* value.startswith('$')
StartsWithDollar(s) == Len(s) > 0 /\ Head(s) = "$"

\* context.get(var_name, value)
ContextGet(context, var_name, value) ==
  IF var_name \in DOMAIN context THEN context[var_name] ELSE value

RECURSIVE ResolveVariables(_, _)

\* Faulty variant of the loop body: a string is looked up when it holds a '$'
\* anywhere, by the characters after the first of them.
RECURSIVE AfterDollar(_)
AfterDollar(s) == IF Head(s) = "$" THEN Tail(s) ELSE AfterDollar(Tail(s))

ResolveValue_AnyDollar(value, context) ==
  IF value.t = "str" /\ (\E i \in DOMAIN value.s : value.s[i] = "$")
  THEN ContextGet(context, AfterDollar(value.s), value)
  ELSE IF value.t = "dict" THEN ResolveVariables(value, context)
  ELSE IF value.t = "list"
  THEN List([i \in DOMAIN value.kids |->
               IF value.kids[i].t = "dict"
               THEN ResolveVariables(value.kids[i], context)
               ELSE value.kids[i]])
  ELSE value

\* The body of the loop over config.items(): what resolved[key] becomes.
ResolveValue(value, context) ==
  IF value.t = "str" /\ StartsWithDollar(value.s)
  THEN ContextGet(context, Tail(value.s), value)
  ELSE IF value.t = "dict" THEN ResolveVariables(value, context)
  ELSE IF value.t = "list"
  THEN List([i \in DOMAIN value.kids |->
               IF value.kids[i].t = "dict"
               THEN ResolveVariables(value.kids[i], context)
               ELSE value.kids[i]])
  ELSE value

\* _resolve_variables: a new mapping with the keys of config.
ResolveVariables(config, context) ==
  Dict(config.keys, [i \in DOMAIN config.kids |-> ResolveValue(config.kids[i], context)])

\* The strings, contexts and configs drawn.
Chars == {"$", "f"}

RECURSIVE Strings(_)
Strings(n) ==
  IF n = 0 THEN {<<>>}
  ELSE Strings(n - 1) \cup {Append(s, c) : s \in Strings(n - 1), c \in Chars}

VarNames == {<<>>, <<"f">>}

Contexts == UNION {[K -> {Num(42)}] : K \in SUBSET VarNames}

Scalars == {Str(s) : s \in Strings(MaxStrLen)} \cup {Num(7)}

\* One more level of nesting: a list of one element, a mapping of one key.
Nest(V) == V \cup {List(<<v>>) : v \in V} \cup {Dict(<<"k">>, <<v>>) : v \in V}

ConfigValues == Nest(Nest(Scalars))

\* No call of _resolve_variables yet.
NotResolved == [t |-> "none", s |-> <<>>, n |-> 0, keys |-> <<>>, kids |-> <<>>]

ResolveIdle ==
  /\ res_config = Dict(<<>>, <<>>)
  /\ res_context = <<>>
  /\ res_resolved = NotResolved

\* _execute_step calls _resolve_variables(step.get('config', {}), state.context).
ResolveCall ==
  /\ res_resolved = NotResolved
  /\ res_resolved' = ResolveVariables(res_config, res_context)
  /\ UNCHANGED <<orch, gvars, kvars, nvars, lvars, res_config, res_context>>

(***************************************************************************)
(* Orchestrator._handle_task_failure on its own: one task whose every      *)
(* execution may fail, with the seconds of its backoff sleeps counted.     *)
(***************************************************************************)
\* Orchestrator._retry_delays
RetryDelays == <<1, 5, 15, 30, 60>>

Min(a, b) == IF a <= b THEN a ELSE b

\* Faulty variant of the delay: the index is capped one entry early.
RetryDelay_CappedEarly(retry_count) ==
  RetryDelays[Min(retry_count - 1, Len(RetryDelays) - 2) + 1]

\* self._retry_delays[min(task.retry_count - 1, len(self._retry_delays) - 1)];
\* the list is indexed from 0 in the source and from 1 here.
RetryDelay(retry_count) ==
  RetryDelays[Min(retry_count - 1, Len(RetryDelays) - 1) + 1]

\* _handle_task_failure up to its await: the sleep, or fail_task.
BkHandleTaskFailure(tk) ==
  LET tk2 == [tk EXCEPT !.retry_count = @ + 1]
  IN  IF ShouldRetry(tk2.retry_count, bk_limit)
      THEN /\ bk_task' = tk2
           /\ bk_delay' = RetryDelay(tk2.retry_count)
           /\ bk_left' = RetryDelay(tk2.retry_count)
           /\ bk_pc' = "sleeping"
      ELSE /\ bk_task' = [tk2 EXCEPT !.status = "failed"]
           /\ bk_pc' = "done"
           /\ UNCHANGED <<bk_delay, bk_left>>

\* The agent's execute raised: handle_error marked the task failed.
BkExecError ==
  /\ bk_pc = "executing"
  /\ BkHandleTaskFailure([bk_task EXCEPT !.status = "failed"])
  /\ UNCHANGED <<orch, gvars, xvars, nvars, lvars, bk_limit, bk_slept, bk_queued>>

\* wait_for timed out.
BkExecTimeout ==
  /\ bk_pc = "executing"
  /\ BkHandleTaskFailure(bk_task)
  /\ UNCHANGED <<orch, gvars, xvars, nvars, lvars, bk_limit, bk_slept, bk_queued>>

\* The agent's execute returned.
BkExecSuccess ==
  /\ bk_pc = "executing"
  /\ bk_task' = [bk_task EXCEPT !.status = "completed"]
  /\ bk_pc' = "done"
  /\ UNCHANGED <<orch, gvars, xvars, nvars, lvars, bk_limit, bk_delay, bk_left, bk_slept, bk_queued>>

\* A second of asyncio.sleep(delay) passes.
BkTick ==
  /\ bk_pc = "sleeping"
  /\ bk_left > 0
  /\ bk_left' = bk_left - 1
  /\ bk_slept' = bk_slept + 1
  /\ UNCHANGED <<orch, gvars, xvars, nvars, lvars, bk_limit, bk_task, bk_pc, bk_delay, bk_queued>>

\* The sleep is over: status WAITING, enqueue.
BkRequeue ==
  /\ bk_pc = "sleeping"
  /\ bk_left = 0
  /\ bk_task' = [bk_task EXCEPT !.status = "waiting"]
  /\ bk_queued' = TRUE
  /\ bk_pc' = "queued"
  /\ UNCHANGED <<orch, gvars, xvars, nvars, lvars, bk_limit, bk_delay, bk_left, bk_slept>>

\* A worker dequeues the task and an agent starts on it.
BkDispatch ==
  /\ bk_pc = "queued"
  /\ bk_queued' = FALSE
  /\ bk_task' = [bk_task EXCEPT !.status = "running"]
  /\ bk_pc' = "executing"
  /\ UNCHANGED <<orch, gvars, xvars, nvars, lvars, bk_limit, bk_delay, bk_left, bk_slept>>

\* No task yet.
BackoffIdle ==
  /\ bk_limit = 0
  /\ bk_task = [status |-> "idle", retry_count |-> 0]
  /\ bk_pc = "idle"
  /\ bk_delay = 0
  /\ bk_left = 0
  /\ bk_slept = 0
  /\ bk_queued = FALSE

(***************************************************************************)
(* One condition step on its own: _execute_step runs it, _get_next_steps   *)
(* selects its successors.  The step names any steps as next_steps,        *)
(* on_success and on_error; its condition evaluates to true, to false, or  *)
(* the evaluation raises.                                                  *)
(***************************************************************************)
EvalOutcomes == {"true", "false", "raises"}

\* _execute_condition: {'condition': condition, 'result': result}.
ExecuteCondition(ev) == IF ev = "true" THEN "True" ELSE "False"

\* The workflow and the step states that hold the one step.
SelWorkflow(step) == [x \in StepIds |-> step]

SelStepStates(status) == [x \in StepIds |-> [status |-> status, retry_count |-> 0]]

\* Faulty variant of the execution: a condition that evaluates to false fails
\* the step.
SelExecuteStep_FalseFails ==
  /\ sel_status = "none"
  /\ ~sel_called
  /\ IF sel_eval \in {"raises", "false"}
     THEN /\ sel_status' = "failed"
          /\ UNCHANGED sel_output
     ELSE /\ sel_status' = "completed"
          /\ sel_output' = ExecuteCondition(sel_eval)
  /\ UNCHANGED <<orch, gvars, xvars, kvars, lvars, sel_step, sel_eval, sel_called, sel_result>>

\* _execute_step of the condition step, without retries; the walk selects the
\* successors of a step after its execution, never before.
SelExecuteStep ==
  /\ sel_status = "none"
  /\ ~sel_called
  /\ IF sel_eval = "raises"
     THEN /\ sel_status' = "failed"
          /\ UNCHANGED sel_output
     ELSE /\ sel_status' = "completed"
          /\ sel_output' = ExecuteCondition(sel_eval)
  /\ UNCHANGED <<orch, gvars, xvars, kvars, lvars, sel_step, sel_eval, sel_called, sel_result>>

\* _get_next_steps(state, step).
SelGetNextSteps ==
  /\ ~sel_called
  /\ sel_called' = TRUE
  /\ sel_result' = GetNextSteps(SelWorkflow(sel_step), SelStepStates(sel_status), InitialStep)
  /\ UNCHANGED <<orch, gvars, xvars, kvars, lvars, sel_step, sel_eval, sel_status, sel_output>>

\* No step yet.
SelectIdle ==
  /\ sel_step = [next_steps |-> {}, on_success |-> Nil, on_error |-> Nil]
  /\ sel_eval = "true"
  /\ sel_status = "none"
  /\ sel_output = None
  /\ sel_called = FALSE
  /\ sel_result = {}

(***************************************************************************)
(* Orchestrator.start and Orchestrator.stop called while another call is   *)
(* suspended.  stop() suspends in its gather until the worker tasks it     *)
(* cancelled have ended; start() and the workers run meanwhile.  A worker  *)
(* task is "live" while its loop runs, "cancelling" from task.cancel()     *)
(* until CancelledError reaches the loop, "done" when _worker returned.    *)
(***************************************************************************)
WorkerTaskIds == 1..(MaxStarts * NumWorkers)

StopCalls == 1..MaxStopCalls

NotAwaiting == [awaiting |-> FALSE, gathered |-> {}]

\* The worker loops that go on dequeuing.
LcLive == {i \in WorkerTaskIds : lc_task[i] = "live"}

\* start(): nothing when _running, else N worker tasks are created and
\* appended to _worker_tasks.
LcStart ==
  /\ IF lc_running
     THEN UNCHANGED lvars
     ELSE /\ lc_spawned + NumWorkers <= MaxStarts * NumWorkers
          /\ lc_running' = TRUE
          /\ lc_task' = [i \in WorkerTaskIds |->
                           IF i \in (lc_spawned + 1)..(lc_spawned + NumWorkers)
                           THEN "live" ELSE lc_task[i]]
          /\ lc_worker_tasks' = lc_worker_tasks \cup ((lc_spawned + 1)..(lc_spawned + NumWorkers))
          /\ lc_spawned' = lc_spawned + NumWorkers
          /\ UNCHANGED lc_stop
  /\ UNCHANGED <<orch, gvars, xvars, kvars, nvars>>

\* stop() up to its await: nothing when not _running, else the flag is
\* cleared and every task of _worker_tasks is cancelled; gather of no task at
\* all is done at once and the list is replaced without a suspension.
LcStop(c) ==
  /\ ~lc_stop[c].awaiting
  /\ IF ~lc_running
     THEN UNCHANGED lvars
     ELSE /\ lc_running' = FALSE
          /\ lc_task' = [i \in WorkerTaskIds |->
                           IF i \in lc_worker_tasks /\ lc_task[i] = "live"
                           THEN "cancelling" ELSE lc_task[i]]
          /\ IF lc_worker_tasks = {}
             THEN UNCHANGED <<lc_worker_tasks, lc_stop>>
             ELSE /\ lc_stop' = [lc_stop EXCEPT ![c] =
                                   [awaiting |-> TRUE, gathered |-> lc_worker_tasks]]
                  /\ UNCHANGED lc_worker_tasks
          /\ UNCHANGED lc_spawned
  /\ UNCHANGED <<orch, gvars, xvars, kvars, nvars>>

\* stop() after its gather: the tasks it awaited have ended, and
\* _worker_tasks is replaced by an empty list.
LcStopReturn(c) ==
  /\ lc_stop[c].awaiting
  /\ \A i \in lc_stop[c].gathered : lc_task[i] = "done"
  /\ lc_worker_tasks' = {}
  /\ lc_stop' = [lc_stop EXCEPT ![c] = NotAwaiting]
  /\ UNCHANGED <<orch, gvars, xvars, kvars, nvars, lc_running, lc_task, lc_spawned>>

\* _worker resumed with CancelledError: the loop is left.
LcWorkerCancelled(i) ==
  /\ lc_task[i] = "cancelling"
  /\ lc_task' = [lc_task EXCEPT ![i] = "done"]
  /\ UNCHANGED <<orch, gvars, xvars, kvars, nvars, lc_running, lc_worker_tasks, lc_spawned, lc_stop>>

\* _worker at its loop test with _running cleared: the loop ends.
LcWorkerLoopExit(i) ==
  /\ lc_task[i] = "live"
  /\ ~lc_running
  /\ lc_task' = [lc_task EXCEPT ![i] = "done"]
  /\ UNCHANGED <<orch, gvars, xvars, kvars, nvars, lc_running, lc_worker_tasks, lc_spawned, lc_stop>>

\* A new orchestrator: not running, no worker task.
OverlapIdle ==
  /\ lc_running = FALSE
  /\ lc_worker_tasks = {}
  /\ lc_task = [i \in WorkerTaskIds |-> "none"]
  /\ lc_spawned = 0
  /\ lc_stop = [c \in StopCalls |-> NotAwaiting]

(***************************************************************************)
(* The orchestrator with its queue, registry and callers.                  *)
(***************************************************************************)
OrchInit ==
  /\ queues = EmptyLanes
  /\ active = {}
  /\ completed = {}
  /\ max_concurrent \in 1..MaxCeiling
  /\ retry_limit \in 0..MaxRetryLimit
  /\ task = [t \in TaskIds |-> NewTask]
  /\ submitted = 0
  /\ agents_by_type = [ty \in AgentTypes |-> <<>>]
  /\ agent = [a \in Agents |-> NewAgent]
  /\ running = FALSE
  /\ worker_tasks = {}
  /\ pc = [w \in Workers |-> "stopped"]
  /\ wtask = [w \in Workers |-> Nil]
  /\ wagent = [w \in Workers |-> None]
  /\ cpu = Nil
  /\ requeued = {}
  /\ cancelled_queued = {}
  /\ started = FALSE
  /\ held = {}
  /\ last_call = [op |-> "none", arg |-> Nil, res |-> Nil]

\* asyncio.wait_for awaits its coroutine in place in the interpreters from 3.12
\* on and wraps it in a task of its own before; the source pins no version.
Init ==
  /\ OrchInit
  /\ RegInit
  /\ OverlapIdle
  /\ SelectIdle
  /\ BackoffIdle
  /\ ResolveIdle
  /\ wait_for_inline \in BOOLEAN
  /\ workflow = MakeWorkflow({}, [step |-> Nil, max_retries |-> 0, on_error |-> Nil], Nil)
  /\ wf_registered = TRUE
  /\ WfIdle

Next ==
  \/ \E p \in OfferedPriorities, ty \in TaskTypes : SubmitTask(p, ty)
  \/ \E t \in TaskIds : CancelTaskCall(t)
  \/ \E a \in Agents : Register(a)
  \/ StartOnce
  \/ Stop
  \/ \E w \in Workers : WorkerNext(w)

Spec == Init /\ [][Next]_vars

\* The event loop runs every worker that is ready, every sleep ends, and an
\* agent's execute returns, raises or is timed out by wait_for.  A worker can
\* take its step only while no other coroutine is running, so the fairness
\* is strong: a worker that is ready again and again is run.
FairSpec == Spec /\ \A w \in Workers : SF_vars(WorkerNext(w))

\* The orchestrator started and stopped any number of times, start() being
\* called whether it runs or not.
LifeInit ==
  /\ Init
  /\ max_concurrent = MaxCeiling
  /\ retry_limit = MaxRetryLimit

LifeNext ==
  \/ \E p \in OfferedPriorities, ty \in TaskTypes : SubmitTask(p, ty)
  \/ \E t \in TaskIds : CancelTaskCall(t)
  \/ \E a \in Agents : Register(a)
  \/ Start
  \/ Stop
  \/ \E w \in Workers : WorkerNext(w)

LifeSpec == LifeInit /\ [][LifeNext]_vars

\* The registry with callers that register and deregister in any order.
RegistryInit ==
  /\ Init
  /\ wait_for_inline = TRUE
  /\ max_concurrent = MaxCeiling
  /\ retry_limit = MaxRetryLimit

RegSpec == RegistryInit /\ [][RegNext]_vars

\* The workflow engine with a registered workflow, before execute_workflow.
WfInit ==
  /\ OrchInit
  /\ RegInit
  /\ OverlapIdle
  /\ SelectIdle
  /\ BackoffIdle
  /\ ResolveIdle
  /\ wait_for_inline = TRUE
  /\ max_concurrent = MaxCeiling
  /\ retry_limit = MaxRetryLimit
  /\ \E E \in SUBSET Edges, f \in FailChoices, os \in {Nil, NumSteps} :
       /\ f.on_error # f.step \/ f.step = Nil
       /\ workflow = MakeWorkflow(E, f, os)
  /\ wf_registered \in BOOLEAN
  /\ WfIdle

WfNext ==
  \/ ExecuteWorkflow
  \/ \E p \in StepIds, c \in StepIds : TaskStart(p, c)
  \/ \E s \in StepIds, d \in StepIds : DepSeen(s, d)
  \/ \E s \in StepIds : DepsTimeout(s)
  \/ \E s \in StepIds : Resume(s)
  \/ \E s \in StepIds : Attempt(s)
  \/ \E s \in StepIds : Select(s)
  \/ \E s \in StepIds : ParentResume(s)
  \/ WfFinish

WfSpec == WfInit /\ [][WfNext]_vars

\* The event loop runs every coroutine that is ready, and every sleep ends.
WfFairSpec == WfSpec /\ WF_vars(WfNext)

\* The workflow engine with a workflow whose steps all succeed and whose
\* nextSteps may name any step, an earlier one or the step itself included.
AnyEdges == StepIds \X StepIds

CycInit ==
  /\ OrchInit
  /\ RegInit
  /\ OverlapIdle
  /\ SelectIdle
  /\ BackoffIdle
  /\ ResolveIdle
  /\ wait_for_inline = TRUE
  /\ max_concurrent = MaxCeiling
  /\ retry_limit = MaxRetryLimit
  /\ \E E \in SUBSET AnyEdges :
       workflow = MakeWorkflow(E, [step |-> Nil, max_retries |-> 0, on_error |-> Nil], Nil)
  /\ wf_registered = TRUE
  /\ WfIdle

CycSpec == CycInit /\ [][WfNext]_vars

CycFairSpec == CycSpec /\ WF_vars(WfNext)

\* _resolve_variables called once with a config and a context.
ResolveInit ==
  /\ OrchInit
  /\ RegInit
  /\ OverlapIdle
  /\ SelectIdle
  /\ BackoffIdle
  /\ wait_for_inline = TRUE
  /\ max_concurrent = MaxCeiling
  /\ retry_limit = MaxRetryLimit
  /\ workflow = MakeWorkflow({}, [step |-> Nil, max_retries |-> 0, on_error |-> Nil], Nil)
  /\ wf_registered = TRUE
  /\ WfIdle
  /\ res_config \in {Dict(<<"a", "b">>, <<v, w>>) : v \in ConfigValues, w \in Scalars}
  /\ res_context \in Contexts
  /\ res_resolved = NotResolved

ResolveNext == ResolveCall

ResolveSpec == ResolveInit /\ [][ResolveNext]_vars

\* One task that an agent is executing for the first time, under any retry limit.
BackoffInit ==
  /\ OrchInit
  /\ RegInit
  /\ OverlapIdle
  /\ SelectIdle
  /\ ResolveIdle
  /\ wait_for_inline = TRUE
  /\ max_concurrent = MaxCeiling
  /\ retry_limit = MaxRetryLimit
  /\ workflow = MakeWorkflow({}, [step |-> Nil, max_retries |-> 0, on_error |-> Nil], Nil)
  /\ wf_registered = TRUE
  /\ WfIdle
  /\ bk_limit \in 0..MaxBackoffLimit
  /\ bk_task = [status |-> "running", retry_count |-> 0]
  /\ bk_pc = "executing"
  /\ bk_delay = 0
  /\ bk_left = 0
  /\ bk_slept = 0
  /\ bk_queued = FALSE

BackoffNext ==
  \/ BkExecError
  \/ BkExecTimeout
  \/ BkExecSuccess
  \/ BkTick
  \/ BkRequeue
  \/ BkDispatch

BackoffSpec == BackoffInit /\ [][BackoffNext]_vars

\* A step with any successors named, before it is executed.
SelectInit ==
  /\ OrchInit
  /\ RegInit
  /\ OverlapIdle
  /\ BackoffIdle
  /\ ResolveIdle
  /\ wait_for_inline = TRUE
  /\ max_concurrent = MaxCeiling
  /\ retry_limit = MaxRetryLimit
  /\ workflow = MakeWorkflow({}, [step |-> Nil, max_retries |-> 0, on_error |-> Nil], Nil)
  /\ wf_registered = TRUE
  /\ WfIdle
  /\ sel_step \in [next_steps : SUBSET StepIds,
                   on_success : {Nil} \cup StepIds,
                   on_error : {Nil} \cup StepIds]
  /\ sel_eval \in EvalOutcomes
  /\ sel_status = "none"
  /\ sel_output = None
  /\ sel_called = FALSE
  /\ sel_result = {}

SelectNext ==
  \/ SelExecuteStep
  \/ SelGetNextSteps

SelectSpec == SelectInit /\ [][SelectNext]_vars

\* start() and stop() called in any order, a call beginning while another is
\* suspended included.
OverlapInit ==
  /\ Init
  /\ wait_for_inline = TRUE
  /\ max_concurrent = MaxCeiling
  /\ retry_limit = MaxRetryLimit

OverlapNext ==
  \/ LcStart
  \/ \E c \in StopCalls : LcStop(c)
  \/ \E c \in StopCalls : LcStopReturn(c)
  \/ \E i \in WorkerTaskIds : LcWorkerCancelled(i)
  \/ \E i \in WorkerTaskIds : LcWorkerLoopExit(i)

OverlapSpec == OverlapInit /\ [][OverlapNext]_vars

(***************************************************************************)
(* The TaskQueue on its own: its operations called in any order by callers *)
(* that keep the orchestrator's protocol (a task that dequeue returned is  *)
(* given back by exactly one of enqueue, complete_task, fail_task; cancel  *)
(* may come at any time).  What an agent does to a task while it is held   *)
(* is part of Spec; here a completed task is marked as the agent marks it. *)
(***************************************************************************)
Call(op, arg, res) == [op |-> op, arg |-> arg, res |-> res]

\* submit_task: enqueue of a fresh task.
QSubmit(p) ==
  /\ submitted < NumTasks
  /\ LET t == submitted + 1
         tk == [task EXCEPT ![t].priority = p]
     IN  /\ queues' = EnqueueLanes(queues, tk, t)
         /\ task' = EnqueueTask(tk, t)
         /\ submitted' = t
         /\ last_call' = Call("enqueue", t, Nil)
  /\ UNCHANGED <<wvars, bvars, svars, active, completed, max_concurrent, retry_limit, rvars, ovars, hvars, held>>

\* dequeue.
QDequeue ==
  /\ queues' = DequeueLanes(queues, active, max_concurrent)
  /\ active' = DequeueActive(queues, active, max_concurrent)
  /\ held' = held \cup ({DequeueResult(queues, active, max_concurrent)} \ {Nil})
  /\ last_call' = Call("dequeue", Nil, DequeueResult(queues, active, max_concurrent))
  /\ UNCHANGED <<wvars, bvars, svars, completed, max_concurrent, retry_limit, task, submitted, rvars, ovars, hvars>>

\* enqueue of a task its caller holds (no agent available, or a retry).
QRequeue(t) ==
  /\ t \in held
  /\ queues' = EnqueueLanes(queues, task, t)
  /\ task' = EnqueueTask(task, t)
  /\ held' = held \ {t}
  /\ last_call' = Call("enqueue", t, Nil)
  /\ UNCHANGED <<wvars, bvars, svars, active, completed, max_concurrent, retry_limit, submitted, rvars, ovars, hvars>>

\* complete_task, after the agent has marked the task completed.
QComplete(t) ==
  /\ t \in held
  /\ task' = SucceedTask(task, t)
  /\ active' = CompleteActive(active, t)
  /\ completed' = CompleteCompleted(active, completed, t)
  /\ held' = held \ {t}
  /\ last_call' = Call("complete", t, Nil)
  /\ UNCHANGED <<wvars, bvars, svars, queues, max_concurrent, retry_limit, submitted, rvars, ovars, hvars>>

\* fail_task.
QFail(t) ==
  /\ t \in held
  /\ task' = FailTaskTask(active, task, t)
  /\ active' = FailTaskActive(active, t)
  /\ completed' = FailTaskCompleted(active, completed, t)
  /\ held' = held \ {t}
  /\ last_call' = Call("fail", t, Nil)
  /\ UNCHANGED <<wvars, bvars, svars, queues, max_concurrent, retry_limit, submitted, rvars, ovars, hvars>>

\* cancel_task; its result is 1 for True and 0 for False.
QCancel(t) ==
  /\ t <= submitted
  /\ queues' = CancelLanes(queues, active, t)
  /\ active' = CancelActive(active, t)
  /\ completed' = CancelCompleted(queues, active, completed, t)
  /\ task' = CancelTask(queues, active, task, t)
  /\ last_call' = Call("cancel", t, IF CancelResult(queues, active, t) THEN 1 ELSE 0)
  /\ UNCHANGED <<wvars, bvars, svars, max_concurrent, retry_limit, submitted, rvars, ovars, hvars, held>>

QNext ==
  \/ \E p \in Priorities : QSubmit(p)
  \/ QDequeue
  \/ \E t \in TaskIds : QRequeue(t)
  \/ \E t \in TaskIds : QComplete(t)
  \/ \E t \in TaskIds : QFail(t)
  \/ \E t \in TaskIds : QCancel(t)

\* The queue as constructed; the orchestrator's retry limit plays no part.
QInit == Init /\ retry_limit = MaxRetryLimit /\ wait_for_inline = TRUE

QueueSpec == QInit /\ [][QNext]_vars

\* complete_task called with any id that is not in the active map: the id of
\* no task, of a queued task, of a task that has ended.
QCompleteCall(t) ==
  /\ t \notin active
  /\ active' = CompleteActive(active, t)
  /\ completed' = CompleteCompleted(active, completed, t)
  /\ last_call' = Call("complete", t, Nil)
  /\ UNCHANGED <<wvars, bvars, svars, queues, max_concurrent, retry_limit, task, submitted, rvars, ovars, hvars, held>>

\* fail_task called with such an id.
QFailCall(t) ==
  /\ t \notin active
  /\ task' = FailTaskTask(active, task, t)
  /\ active' = FailTaskActive(active, t)
  /\ completed' = FailTaskCompleted(active, completed, t)
  /\ last_call' = Call("fail", t, Nil)
  /\ UNCHANGED <<wvars, bvars, svars, queues, max_concurrent, retry_limit, submitted, rvars, ovars, hvars, held>>

QAnyNext ==
  \/ QNext
  \/ \E t \in TaskIds : QCompleteCall(t)
  \/ \E t \in TaskIds : QFailCall(t)

\* The queue with callers that also pass ids the queue does not hold in flight.
QueueAnySpec == QInit /\ [][QAnyNext]_vars

(***************************************************************************)
(* Properties of the orchestrator.                                         *)
(***************************************************************************)
Submitted == 1..submitted

InPlaces(t) ==
  (IF OnLane(queues, t) THEN 1 ELSE 0) + (IF t \in active THEN 1 ELSE 0)
    + (IF t \in completed THEN 1 ELSE 0)

\* C1: every task known to the queue is in exactly one of a priority lane, the
\* in-flight set and the terminated set, re-enqueued tasks included.
C1_ExactlyOnePlace == \A t \in Submitted : InPlaces(t) = 1

IdleAgentFor(t) ==
  GetAvailableAgent(agents_by_type, agent, DetermineAgentType(task[t].type)) # None

\* C2: a task put back for lack of an idle agent is, once an agent of its type
\* is idle, eventually dequeued again and executed (unless it is cancelled or
\* the orchestrator stopped meanwhile).
C2_RequeuedTaskRuns ==
  \A t \in TaskIds :
    (t \in requeued /\ OnLane(queues, t) /\ running /\ IdleAgentFor(t))
      ~> (task[t].status \in {"running", "cancelled"} \/ t \notin requeued \/ ~running)

\* C3: once cancel has returned true for a queued task, no dequeue returns it.
C3_CancelledNeverDequeued ==
  [][\A w \in Workers :
       (pc[w] = "ready" /\ pc'[w] = "dispatch") => wtask'[w] \notin cancelled_queued]_vars

\* C4: when stop() has returned, every task a worker was executing (awaiting
\* the agent, or in its retry backoff) is failed and out of the in-flight set,
\* and the lanes are as they were.
C4_StopFailsExecuting ==
  [][(running /\ ~running') =>
       /\ queues' = queues
       /\ \A w \in Workers :
            pc[w] \in {"starting", "executing", "backoff"} =>
              /\ task'[wtask[w]].status = "failed"
              /\ wtask[w] \notin active']_vars

\* A worker's step out of the agent's execute that was a failure of task t (an
\* error or a timeout): the failure handler has counted it.
FailureStep(w, t) ==
  /\ pc[w] = "executing"
  /\ wtask[w] = t
  /\ pc'[w] \in {"backoff", "ready"}
  /\ task'[t].status # "completed"

\* C11 (counting): retry_count never exceeds retry_limit + 1; it changes only
\* by a failed attempt, and then by one; a failure is followed by a retry
\* exactly while retry_count <= retry_limit, and otherwise the task, if still in
\* flight, terminates failed with retry_count = retry_limit + 1 (with
\* retry_limit = 0 on its first failure).
C11_RetryCounting ==
  /\ [](\A t \in TaskIds : task[t].retry_count <= retry_limit + 1)
  /\ [][\A t \in TaskIds :
          /\ task'[t].retry_count # task[t].retry_count =>
               /\ task'[t].retry_count = task[t].retry_count + 1
               /\ \E w \in Workers : FailureStep(w, t)
          /\ \A w \in Workers : FailureStep(w, t) =>
               /\ task'[t].retry_count = task[t].retry_count + 1
               /\ (pc'[w] = "backoff") <=> (task'[t].retry_count <= retry_limit)
               /\ (pc'[w] = "ready" /\ t \in active) =>
                    /\ task'[t].status = "failed"
                    /\ t \in completed' /\ t \notin active'
                    /\ task'[t].retry_count = retry_limit + 1]_vars

\* C11 (termination): a task that has failed an attempt terminates (failed
\* after its last attempt, or completed or cancelled) unless the orchestrator
\* is stopped.
C11_FailedTaskTerminates ==
  \A t \in TaskIds :
    (task[t].retry_count > 0 /\ running) ~> (t \in completed \/ ~running)

\* C11: a task whose every attempt fails is attempted retry_limit + 1 times,
\* counted by retry_count, and then terminates with status failed.
C11_RetriesThenFails == C11_RetryCounting /\ C11_FailedTaskTerminates

\* C12: a task whose status is completed, failed or cancelled has its
\* completed_at set, a task cancelled while it waited on a lane included.
C12_TerminalHasCompletedAt ==
  \A t \in TaskIds :
    task[t].status \in {"completed", "failed", "cancelled"} => task[t].completed_at

\* C13: a task names an assigned agent only while its status is initializing
\* or running; waiting, completed, failed and cancelled tasks name none.
C13_AssignedOnlyWhileExecuting ==
  \A t \in TaskIds :
    task[t].assigned_agent_id # None => task[t].status \in {"initializing", "running"}

\* C14: an agent executes at most one task at a time: no two workers are inside
\* execute of the same agent, and prepare is never run on an agent that
\* already has a current task.
C14_OneTaskPerAgent ==
  /\ [](\A w1 \in Workers, w2 \in Workers :
          (/\ w1 # w2
           /\ pc[w1] \in {"preparing", "executing"}
           /\ pc[w2] \in {"preparing", "executing"}) => wagent[w1] # wagent[w2])
  /\ [][\A a \in Agents :
          (agent'[a].current_task # Nil /\ agent'[a].current_task # agent[a].current_task)
            => agent[a].current_task = Nil]_vars

\* The status changes of a task on its way to a successful execution.
HappyOrder ==
  {<<"idle", "waiting">>, <<"waiting", "initializing">>,
   <<"initializing", "running">>, <<"running", "completed">>}

\* C15: a task that is executed successfully (it never failed, timed out or was
\* cancelled) passes idle, waiting, initializing, running, completed in this
\* order and through no other status: a task not yet submitted is idle, and
\* every change of status is the next one of the order; a dequeue leaves the
\* status of the task it returns as it is.
C15_StatusOrder ==
  /\ [](\A t \in TaskIds : t > submitted => task[t].status = "idle")
  /\ [][\A t \in TaskIds :
          /\ (/\ task'[t].status # task[t].status
              /\ task'[t].retry_count = 0
              /\ task[t].status \notin {"failed", "cancelled"}
              /\ task'[t].status \notin {"failed", "cancelled"})
               => <<task[t].status, task'[t].status>> \in HappyOrder
          /\ (\E w \in Workers : pc[w] = "ready" /\ pc'[w] = "dispatch" /\ wtask'[w] = t)
               => task'[t].status = task[t].status]_vars

\* A task went through the whole order and is recorded as completed.
C15_Witness ==
  \E t \in TaskIds :
    /\ task[t].status = "completed"
    /\ task[t].retry_count = 0
    /\ t \in completed
    /\ cancelled_queued = {}

\* C17, the decision: a timeout and an agent error are handled alike: either
\* adds one to retry_count and takes the same decision, a retry (backoff, then
\* the lane) while retry_count <= retry_limit, else the end as failed with
\* retry_count = retry_limit + 1.
C17_SameDecision ==
  [][\A w \in Workers :
        (WExecError(w) \/ WExecTimeout(w)) =>
          LET t == wtask[w] IN
          /\ task'[t].retry_count = task[t].retry_count + 1
          /\ (pc'[w] = "backoff") <=> (task'[t].retry_count <= retry_limit)
          /\ (pc'[w] # "backoff") => (pc'[w] = "ready" /\ task'[t].retry_count = retry_limit + 1)
          /\ (pc'[w] # "backoff" /\ t \in active) =>
               (task'[t].status = "failed" /\ t \in completed' /\ t \notin active')]_vars

\* C17, the end: a task that has timed out (it waits for its retry, still
\* marked running) reaches the terminated set while the orchestrator runs.
C17_TimedOutTaskEnds ==
  \A t \in TaskIds, w \in Workers :
    (pc[w] = "backoff" /\ wtask[w] = t /\ task[t].status = "running" /\ running)
      ~> (t \in completed \/ ~running)

\* C17: a timeout is handled exactly like an agent error, and a task that
\* times out on every attempt ends failed with retry_count = retry_limit + 1.
C17_TimeoutLikeError == C17_SameDecision /\ C17_TimedOutTaskEnds

\* The worker loops that have not ended.
LiveWorkers == {w \in Workers : pc[w] # "stopped"}

\* C18: after any sequence of start() and stop() calls there are exactly N live
\* worker loops while the orchestrator is running and none once stop() has
\* returned; a start() of a running orchestrator spawns nothing and leaves
\* every worker where it is.
C18_StartIdempotent ==
  /\ [](running => (Cardinality(LiveWorkers) = NumWorkers /\ worker_tasks = Workers))
  /\ [](~running => (LiveWorkers = {} /\ worker_tasks = {}))
  /\ [][(Start /\ running) => UNCHANGED <<running, worker_tasks, pc, wtask, wagent>>]_vars

\* The orchestrator runs again after a stop that cancelled an execution: a task
\* is still in flight and marked as being executed though no worker holds it,
\* and all the workers are live.
C18_Witness ==
  /\ running
  /\ Cardinality(LiveWorkers) = NumWorkers
  /\ \E t \in TaskIds :
       /\ t \in active
       /\ task[t].status \in {"initializing", "running"}
       /\ \A w \in Workers : wtask[w] # t

RoutedTypes ==
  {<<"navigate", "navigator">>, <<"plan", "planner">>, <<"validate", "validator">>,
   <<"execute", "executor">>, <<"extract", "extractor">>, <<"analyze", "analyzer">>}

UnroutedTypes == {"unknown", "Navigate", "custom", "click", ""}

\* C20: the agent type is a function of the task's type alone: the six types
\* of the table go to their agent type, every other type to the executor, and
\* the agent a worker runs a task on, like the agent that has the task as its
\* current task, is of the type so chosen.
C20_RoutingByType ==
  /\ \A r \in RoutedTypes : DetermineAgentType(r[1]) = r[2]
  /\ \A ty \in UnroutedTypes : DetermineAgentType(ty) = "executor"
  /\ \A w \in Workers :
       pc[w] \in {"starting", "preparing", "executing"} =>
         AgentTypeOf(wagent[w]) = DetermineAgentType(task[wtask[w]].type)
  /\ \A a \in Agents :
       agent[a].current_task # Nil =>
         AgentTypeOf(a) = DetermineAgentType(task[agent[a].current_task].type)

\* Both cases at once: a task of a type in the table runs on the navigator and
\* a task of a type outside it on the executor.
C20_Witness ==
  \E w1 \in Workers, w2 \in Workers :
    /\ pc[w1] = "executing" /\ pc[w2] = "executing"
    /\ task[wtask[w1]].type = "navigate" /\ wagent[w1] = "nav"
    /\ agent["nav"].current_task = wtask[w1]
    /\ task[wtask[w2]].type = "unknown" /\ wagent[w2] = "exe"
    /\ agent["exe"].current_task = wtask[w2]

TerminalStatus == {"completed", "failed", "cancelled"}

\* C33: a task whose status is completed, failed or cancelled keeps that
\* status: no agent, retry or queue operation changes it afterwards.
C33_TerminalStatusFinal ==
  [][\A t \in TaskIds :
       (task[t].status \in TerminalStatus) => (task'[t].status = task[t].status)]_vars

\* Worker w holds a task that was cancelled while in flight: the agent is
\* still running on it, or the worker sleeps before its retry, and the task
\* has been moved from the in-flight set to the terminated set.
CancelledInFlight(w) ==
  /\ wtask[w] # Nil
  /\ pc[w] \in {"executing", "backoff"}
  /\ wtask[w] \in completed
  /\ wtask[w] \notin active

\* C34: a task cancelled while its agent runs stays cancelled: whatever the
\* agent does afterwards, the task is not put on a lane, not taken in flight
\* again, and not given the status completed.
C34_CancelInFlightSticks ==
  [][\A w \in Workers :
       CancelledInFlight(w) =>
         (/\ ~OnLane(queues', wtask[w])
          /\ wtask[w] \notin active'
          /\ task'[wtask[w]].status # "completed")]_vars

\* C35: tasks that cannot be dispatched do not hold up the others: while the
\* orchestrator runs, a task waiting on its lane whose agent type has an idle
\* agent is in the end handed to an agent (or cancelled, or the agent is taken).
C35_UndispatchableNeverBlocks ==
  \A t \in TaskIds :
    (t \notin requeued /\ OnLane(queues, t) /\ task[t].status = "waiting"
       /\ running /\ IdleAgentFor(t))
      ~> (\/ task[t].status # "waiting"
          \/ ~running
          \/ ~IdleAgentFor(t))

\* C38: when calls of start() and stop() overlap, the worker loops that go on
\* dequeuing never number more than N, and each of them is in _worker_tasks,
\* where a later stop() finds and cancels it.
C38_OverlapKeepsWorkersTracked ==
  /\ Cardinality(LcLive) <= NumWorkers
  /\ LcLive \subseteq lc_worker_tasks

(***************************************************************************)
(* Properties of the workflow engine (WfSpec).                             *)
(***************************************************************************)
\* C5: a step is attempted at most max_retries + 1 times in one execution, and
\* when the error of a step that did not complete has propagated, the step has
\* status failed.
C5_AttemptsBounded ==
  \A s \in StepIds :
    /\ attempts[s] <= workflow[s].max_retries + 1
    /\ (frame[s] = "raised" /\ attempts[s] > 0 /\ step_states[s].status # "completed")
         => step_states[s].status = "failed"

\* The step ended failed for good: its last attempt failed and raised.
EndedFailed(s) == step_states[s].status = "failed" /\ frame[s] = "raised"

\* C6: when the execution has ended and a step ended failed, then with on_error
\* set the on_error step has been executed, and without it the execution is
\* failed.
C6_OnErrorExecuted ==
  \A s \in StepIds :
    (EndedFailed(s) /\ wf_status \in {"completed", "failed"}) =>
      IF workflow[s].on_error # Nil
      THEN attempts[workflow[s].on_error] > 0
      ELSE wf_status = "failed"

PredecessorsDone(s) ==
  \A d \in BuildDag(workflow)[s] : step_states[d].status \in TerminalStepStatus

FinalWorkflowStatus == {"completed", "failed"}

\* C24: execute_workflow returns for every workflow of finitely many steps,
\* steps that fail and have retries included: an execution that has begun
\* reaches status completed or failed, it has completed_at set just when it
\* has ended, and its status does not change after that.
C24_ExecuteReturns ==
  /\ [](wf_completed_at <=> wf_status \in FinalWorkflowStatus)
  /\ [][(wf_status \in FinalWorkflowStatus) => (wf_status' = wf_status)]_vars
  /\ (wf_status = "running") ~> (wf_status \in FinalWorkflowStatus)

\* An execution has ended although a step with retries failed on every attempt.
C24_Witness ==
  /\ wf_status = "failed"
  /\ wf_completed_at
  /\ \E s \in StepIds :
       /\ workflow[s].kind = "fail"
       /\ workflow[s].max_retries > 0
       /\ attempts[s] > 1

\* The steps a walk from S can reach through nextSteps in at most n moves.
RECURSIVE ReachFrom(_, _, _)
ReachFrom(wf, S, n) ==
  IF n = 0 THEN S
  ELSE ReachFrom(wf, S \cup UNION {wf[s].next_steps : s \in S}, n - 1)

OnCycle(wf, s) == s \in ReachFrom(wf, wf[s].next_steps, NumSteps)

CyclicWorkflow ==
  \E s \in ReachFrom(workflow, {InitialStep}, NumSteps) : OnCycle(workflow, s)

C28_OutputPublishedWhenCompleted ==
  /\ [](\A s \in StepIds :
          /\ s \in wf_context <=> step_states[s].status = "completed"
          /\ step_states[s].status = "failed" => s \notin wf_context
          /\ \A d \in deps_seen[s] :
               step_states[d].status = "completed" => d \in wf_context)
  /\ [][\A s \in StepIds :
          Attempt(s) =>
            (\A d \in BuildDag(workflow)[s] :
               (step_states[d].status = "completed") => (d \in wf_context))]_vars

\* A step ran after two predecessors, one completed and one failed: the
\* context holds the key of the first only.
C28_Witness ==
  \E s \in StepIds, d \in StepIds, f \in StepIds :
    /\ {d, f} \subseteq deps_seen[s]
    /\ step_states[s].status = "completed"
    /\ step_states[d].status = "completed"
    /\ step_states[f].status = "failed"
    /\ {s, d} \subseteq wf_context
    /\ f \notin wf_context

\* A step whose execution raises has been attempted.
RaisingStepRun == \E s \in StepIds : workflow[s].kind = "fail" /\ attempts[s] > 0

\* C29: once a step of an unknown type has been executed, the execution cannot
\* complete and it ends with status failed and an error message; an execution
\* that failed always carries an error message.  For a workflow id that is
\* neither registered nor stored, execute_workflow creates no execution state
\* and raises the lookup error to its caller, which WorkflowExecutor.execute
\* hands on as a failed result without an execution id.
C29_ValidationFailures ==
  /\ [](RaisingStepRun => wf_status # "completed")
  /\ [](wf_status = "failed" => wf_error_message /\ ExecutorExecute.error)
  /\ RaisingStepRun ~> (wf_status = "failed" /\ wf_error_message)
  /\ [](~wf_registered =>
          /\ wf_status = "pending"
          /\ step_states = [s \in StepIds |-> NoStepState]
          /\ visited = {}
          /\ wf_context = {}
          /\ wf_outcome \in {"none", "not_found"})
  /\ [](wf_outcome = "not_found" =>
          /\ ~wf_registered
          /\ ExecutorExecute.execution_id = None
          /\ ExecutorExecute.status = "failed"
          /\ ExecutorExecute.error)
  /\ (~wf_registered) ~> (wf_outcome = "not_found")

\* The step after the initial one raised at once, without retries, and the
\* execution ended failed with its message.
C29_Witness ==
  /\ wf_registered
  /\ wf_status = "failed"
  /\ wf_error_message
  /\ wf_outcome = "state"
  /\ \E s \in StepIds \ {InitialStep} :
       /\ workflow[s].kind = "fail"
       /\ workflow[s].max_retries = 0
       /\ attempts[s] = 1
       /\ step_states[s].status = "failed"
       /\ step_states[InitialStep].status = "completed"

MissesPredecessor(s) ==
  /\ s \in visited
  /\ \E p \in BuildDag(workflow)[s] : attempts[p] = 0

PriorityRank(p) ==
  CASE p = "urgent" -> 4 [] p = "high" -> 3 [] p = "medium" -> 2 [] OTHER -> 1

AllLanesEmpty(qs) == \A p \in Priorities : qs[p] = <<>>

Queued(qs) == UNION {SeqToSet(qs[p]) : p \in Priorities}

\* C7: below the ceiling, dequeue returns the head of the highest-priority lane
\* that is not empty (urgent > high > medium > low), whatever the order in
\* which the tasks were enqueued, and none only when all lanes are empty.
C7_StrictPriority ==
  [][(last_call'.op = "dequeue" /\ Cardinality(active) < max_concurrent) =>
       /\ (last_call'.res = Nil) <=> AllLanesEmpty(queues)
       /\ last_call'.res # Nil =>
            \E p \in Priorities :
              /\ queues[p] # <<>>
              /\ last_call'.res = Head(queues[p])
              /\ \A q \in Priorities :
                   PriorityRank(q) > PriorityRank(p) => queues[q] = <<>>]_vars

\* A later task of a higher priority was returned while an earlier one waits.
C7_Witness ==
  /\ last_call = Call("dequeue", Nil, 2)
  /\ OnLane(queues, 1)
  /\ PriorityRank(task[2].priority) > PriorityRank(task[1].priority)

\* C8: a lane is first-in first-out: enqueue adds at the tail, dequeue takes
\* the head, cancel takes out the cancelled task only, and nothing else
\* changes a lane; dequeue never returns a task that has another one ahead of
\* it on its lane; and on an empty queue below the ceiling, enqueue(T)
\* followed at once by dequeue returns T.
C8_FifoWithinLane ==
  [][/\ \A p \in Priorities :
          \/ queues'[p] = queues[p]
          \/ /\ last_call'.op = "enqueue"
             /\ task'[last_call'.arg].priority = p
             /\ queues'[p] = Append(queues[p], last_call'.arg)
          \/ /\ last_call'.op = "dequeue"
             /\ queues[p] # <<>>
             /\ last_call'.res = Head(queues[p])
             /\ queues'[p] = Tail(queues[p])
          \/ /\ last_call'.op = "cancel"
             /\ queues'[p] = RemoveFirst(queues[p], last_call'.arg)
     /\ (last_call'.op = "dequeue" /\ last_call'.res # Nil) =>
          \A p \in Priorities : \A i \in 2..Len(queues[p]) :
            queues[p][i] # last_call'.res
     /\ (/\ last_call.op = "enqueue"
         /\ Queued(queues) = {last_call.arg}
         /\ Cardinality(active) < max_concurrent
         /\ last_call'.op = "dequeue") => last_call'.res = last_call.arg]_vars

\* Of two tasks enqueued on one lane, the earlier one was returned first.
C8_Witness ==
  /\ last_call = Call("dequeue", Nil, 1)
  /\ task[1].priority = task[2].priority
  /\ OnLane(queues, 2)
  /\ task[1].status = "waiting"

\* C9: the in-flight set never holds more tasks than the ceiling, and at the
\* ceiling dequeue returns none and moves no task, even with tasks queued.
C9_CeilingHolds ==
  /\ [](Cardinality(active) <= max_concurrent)
  /\ [][(last_call'.op = "dequeue" /\ Cardinality(active) = max_concurrent) =>
          /\ last_call'.res = Nil
          /\ queues' = queues
          /\ active' = active
          /\ completed' = completed]_vars

\* dequeue has just returned none at the ceiling with a task queued.
C9_Witness ==
  /\ last_call = Call("dequeue", Nil, Nil)
  /\ Cardinality(active) = max_concurrent
  /\ ~AllLanesEmpty(queues)

\* C10: with more tasks than the ceiling C and no task both queued and in
\* flight: dequeue leaves tasks queued only when C are in flight; completing
\* one in-flight task frees one place; the dequeue after it admits one task,
\* which makes C again; and the dequeue after that returns none.
C10_OneAdmittedPerCompletion ==
  /\ []((last_call = Call("dequeue", Nil, Nil) /\ ~AllLanesEmpty(queues)) =>
          Cardinality(active) = max_concurrent)
  /\ [][(Queued(queues) \cap active = {}) =>
          /\ (/\ last_call'.op = "complete"
              /\ last_call'.arg \in active
              /\ Cardinality(active) = max_concurrent) =>
                Cardinality(active') = max_concurrent - 1
          /\ (/\ last_call.op = "complete"
              /\ Cardinality(active) = max_concurrent - 1
              /\ ~AllLanesEmpty(queues)
              /\ last_call'.op = "dequeue") =>
                /\ last_call'.res # Nil
                /\ Cardinality(active') = max_concurrent
          /\ (/\ last_call.op = "dequeue"
              /\ last_call.res # Nil
              /\ Cardinality(active) = max_concurrent
              /\ last_call'.op = "dequeue") => last_call'.res = Nil]_vars

\* With a ceiling of one: task 1 completed, task 2 admitted in its place, and
\* the dequeue after that returned none.
C10_Witness ==
  /\ max_concurrent = 1
  /\ task[1].status = "completed"
  /\ 1 \in completed
  /\ active = {2}
  /\ last_call = Call("dequeue", Nil, Nil)

\* C16: cancel returns true exactly when the task is in flight or on a lane at
\* the call, and the task is then in the terminated set with status cancelled;
\* for a task already in the terminated set it returns false and leaves the
\* lanes, the in-flight set and the terminated set as they were.
C16_CancelResult ==
  [][\A t \in TaskIds : QCancel(t) =>
        /\ (last_call'.res = 1) <=> (t \in active \/ OnLane(queues, t))
        /\ (last_call'.res = 1) => (t \in completed' /\ task'[t].status = "cancelled")
        /\ (last_call'.res = 0) => UNCHANGED <<queues, active, completed, task>>
        /\ (t \in completed) =>
             /\ last_call'.res = 0
             /\ UNCHANGED <<queues, active, completed, task>>]_vars

\* C32: complete_task and fail_task called with an id that is not in flight
\* (the id of no task, of a queued task, of a task that has ended) leave the
\* lanes, the in-flight set, the terminated set and every task as they were.
C32_UnknownIdNoEffect ==
  [][\A t \in TaskIds :
       (QCompleteCall(t) \/ QFailCall(t)) =>
         (/\ t \notin active
          /\ queues' = queues
          /\ active' = active
          /\ completed' = completed
          /\ task' = task)]_vars

\* fail_task was called with the id of a task waiting on its lane, and with
\* the id of a task that had been cancelled: both are as they were.
C32_Witness ==
  /\ last_call.op = "fail"
  /\ \E t \in TaskIds :
       /\ last_call.arg = t
       /\ OnLane(queues, t)
       /\ task[t].status = "waiting"
       /\ t \notin completed
  /\ \E u \in TaskIds : u \in completed /\ task[u].status = "cancelled"

(***************************************************************************)
(* Properties of the AgentRegistry (RegSpec).                              *)
(***************************************************************************)
\* The instances each index holds.
ById == {reg_agents[i] : i \in RegIds} \ {NoAgent}

ByType == UNION {SeqToSet(reg_by_type[ty]) : ty \in RegTypes}

\* How often an agent id is listed in the per-type index.
TimesListed(i) ==
  Cardinality({<<ty, k>> \in RegTypes \X (1..MaxInstances) :
                 k <= Len(reg_by_type[ty]) /\ reg_by_type[ty][k].id = i})

\* C21: after any sequence of register and deregister calls both indexes hold
\* the same agent instances: the per-type index lists a registered id once, with
\* the instance registered last, and lists no id that is not registered.
C21_IndexesAgree ==
  /\ ById = ByType
  /\ \A i \in RegIds : TimesListed(i) = IF reg_agents[i] = NoAgent THEN 0 ELSE 1

(***************************************************************************)
(* Properties of _resolve_variables (ResolveSpec).                         *)
(***************************************************************************)
Resolved == res_resolved # NotResolved

\* A string names a variable of the context: '$' and then a key of it.
NamesVariable(v, context) ==
  /\ v.t = "str"
  /\ Len(v.s) >= 1
  /\ v.s[1] = "$"
  /\ SubSeq(v.s, 2, Len(v.s)) \in DOMAIN context

\* C26: the value returned for a key of the config is the context's value when
\* the stored value is a string made of '$' and a key of the context, and the
\* stored value itself for every other string and for every number; the
\* result has the keys of the config, and the stored config is not changed.
C26_TopLevelResolution ==
  /\ [](Resolved =>
          /\ res_resolved.t = "dict"
          /\ res_resolved.keys = res_config.keys
          /\ \A i \in DOMAIN res_config.kids :
               LET v == res_config.kids[i]
                   r == res_resolved.kids[i]
               IN  /\ NamesVariable(v, res_context) =>
                         r = res_context[SubSeq(v.s, 2, Len(v.s))]
                   /\ (v.t \in {"str", "num"} /\ ~NamesVariable(v, res_context)) => r = v)
  /\ [][res_config' = res_config]_vars

\* "$f" was replaced by the context's value, "f$" next to it was kept.
C26_Witness ==
  /\ Resolved
  /\ res_config.kids[1] = Str(<<"$", "f">>)
  /\ res_config.kids[2] = Str(<<"f", "$">>)
  /\ <<"f">> \in DOMAIN res_context
  /\ res_resolved.kids[1] = Num(42)
  /\ res_resolved.kids[2] = Str(<<"f", "$">>)

\* Resolution at every depth: of the values of a mapping and of the elements
\* of a list alike.
RECURSIVE ResolveEverywhere(_, _)
ResolveEverywhere(v, context) ==
  IF NamesVariable(v, context) THEN context[SubSeq(v.s, 2, Len(v.s))]
  ELSE IF v.t \in {"dict", "list"}
  THEN [v EXCEPT !.kids = [i \in DOMAIN v.kids |-> ResolveEverywhere(v.kids[i], context)]]
  ELSE v

\* C27: a string made of '$' and a key of the context is replaced wherever it
\* occurs in the config, in nested mappings and lists at every depth, as an
\* element of a list and inside a list nested in a list.
C27_ResolvedAtEveryDepth ==
  Resolved => res_resolved = ResolveEverywhere(res_config, res_context)

(***************************************************************************)
(* Properties of _handle_task_failure (BackoffSpec).                       *)
(***************************************************************************)
\* The delays of the first k retries, added up.
RECURSIVE BackoffTotal(_)
BackoffTotal(k) ==
  IF k = 0 THEN 0
  ELSE BackoffTotal(k - 1)
         + (CASE k = 1 -> 1 [] k = 2 -> 5 [] k = 3 -> 15 [] k = 4 -> 30 [] OTHER -> 60)

\* C30: the sleep after the k-th failure, 1 <= k <= retry_limit, lasts
\* backoff[min(k-1, 4)] seconds of [1, 5, 15, 30, 60], the index being in range
\* and the delay 60 from the fifth failure on; the task is put back, with
\* status waiting, only when the whole delay has passed; the seconds slept add
\* up to the delays of the retries made, 21 for a task that failed every
\* attempt under retry_limit = 3.
C30_BackoffDelays ==
  /\ [](bk_pc = "sleeping" =>
          LET k == bk_task.retry_count
          IN  /\ k \in 1..bk_limit
              /\ Min(k - 1, 4) + 1 \in DOMAIN RetryDelays
              /\ bk_delay = RetryDelays[Min(k - 1, 4) + 1]
              /\ k >= 5 => bk_delay = 60
              /\ ~bk_queued
              /\ bk_task.status # "waiting"
              /\ bk_slept = BackoffTotal(k - 1) + (bk_delay - bk_left))
  /\ [](bk_pc \in {"queued", "executing", "done"} =>
          bk_slept = BackoffTotal(Min(bk_task.retry_count, bk_limit)))
  /\ []((bk_limit = 3 /\ bk_task.status = "failed" /\ bk_pc = "done") =>
          (bk_task.retry_count = 4 /\ bk_slept = 21))
  /\ [](bk_queued => bk_task.status = "waiting")
  /\ [][(bk_queued' /\ ~bk_queued) =>
          (bk_pc = "sleeping" /\ bk_left = 0 /\ bk_task'.status = "waiting")]_vars

\* Under retry_limit = 3 the task failed four times: 21 seconds of backoff.
C30_Witness ==
  /\ bk_limit = 3
  /\ bk_pc = "done"
  /\ bk_task.status = "failed"
  /\ bk_task.retry_count = 4
  /\ bk_slept = 21

(***************************************************************************)
(* Properties of _get_next_steps (SelectSpec).                             *)
(***************************************************************************)
\* C31: for a step that was executed and did not fail, _get_next_steps returns
\* all of next_steps and nothing else when next_steps is not empty, on_success
\* alone when next_steps is absent or empty, and nothing when there is
\* neither; on_error is returned only where next_steps or on_success name the
\* same step.
C31_SuccessorPrecedence ==
  (sel_called /\ sel_status = "completed") =>
    /\ sel_step.next_steps # {} => sel_result = sel_step.next_steps
    /\ (sel_step.next_steps = {} /\ sel_step.on_success # Nil) =>
         sel_result = {sel_step.on_success}
    /\ (sel_step.next_steps = {} /\ sel_step.on_success = Nil) => sel_result = {}
    /\ (sel_step.on_error \in sel_result) =>
         \/ sel_step.on_error \in sel_step.next_steps
         \/ sel_step.next_steps = {} /\ sel_step.on_error = sel_step.on_success

\* A completed step naming next_steps, another on_success and a third
\* on_error: next_steps was returned.
C31_Witness ==
  /\ sel_called
  /\ sel_status = "completed"
  /\ sel_step.next_steps # {}
  /\ sel_step.on_success \in StepIds \ sel_step.next_steps
  /\ sel_step.on_error \in StepIds \ (sel_step.next_steps \cup {sel_step.on_success})
  /\ sel_result = sel_step.next_steps

\* The successors of a step that did not fail, from its definition alone.
SuccessorsNamed(step) ==
  IF step.next_steps # {} THEN step.next_steps
  ELSE IF step.on_success # Nil THEN {step.on_success}
  ELSE {}

====
